---- MODULE Spec2Model ----
(***************************************************************************)
(* Novellia Pets: the pets / medical_records store, the start-up of the    *)
(* server and the request handlers of the REST backend (petController,     *)
(* recordController, dashboardController).                                 *)
(*                                                                         *)
(* Every handler is an async function: it runs synchronously up to its     *)
(* next `await query(...)`, and every query is one atomic statement of the *)
(* store.  A handler is therefore modelled as one action for its call (the *)
(* synchronous code up to the first await, or up to a response sent before *)
(* it) and one action per awaited statement: the end of the statement and  *)
(* the synchronous code after it, up to the next await or the response.    *)
(* initializeSchema is modelled the same way.                              *)
(***************************************************************************)
EXTENDS Integers, Sequences, FiniteSets, TLC

VARIABLES
    pets,       \* rows of table pets
    records,    \* rows of table medical_records
    petSeq,     \* last value handed out by pets_id_seq (SERIAL)
    recSeq,     \* last value handed out by medical_records_id_seq (SERIAL)
    req,        \* per client: the handler invocation it is waiting for
    sent,       \* number of requests submitted so far
    env,        \* the environment: how many clients, which payloads they send
    sys         \* the server process: start-up phase, tables created, pool

vars == <<pets, records, petSeq, recSeq, req, sent, env, sys>>

(***************************************************************************)
(* Bounds of the model.                                                    *)
(***************************************************************************)
NumClients  == 2    \* clients that have a request in flight at the same time
MaxPets     == 2    \* pets ever inserted
MaxRecords  == 2    \* medical records ever inserted
MaxRequests == 3    \* requests submitted one after another in one behaviour
MaxScenario == 5    \* requests of a scenario of plain payloads, one after another
MaxOverlap  == 3    \* requests submitted by concurrent clients in one behaviour
MaxRace     == 2    \* requests of concurrent clients on a database that holds rows

(***************************************************************************)
(* JavaScript values of a JSON request body.  A key that is absent from    *)
(* the body destructures to undefined.  The text of a string is the       *)
(* sequence of its characters.                                             *)
(***************************************************************************)
Undefined == [type |-> "undefined"]
Null      == [type |-> "null"]
Num(n)    == [type |-> "number", n |-> n]
Str(s)    == [type |-> "string", s |-> s]

IsString(v) == v.type = "string"

\* JavaScript truthiness (ToBoolean) of a body value.
Falsy(v) ==
    \/ v.type \in {"undefined", "null"}
    \/ v.type = "string" /\ Len(v.s) = 0
    \/ v.type = "number" /\ v.n = 0

\* `v || null`: the SQL parameter is NULL for a falsy value.
OrNull(v) == IF Falsy(v) THEN Null ELSE v

(***************************************************************************)
(* zod (v3) schemas.  A parse yields a status and the list of issues in    *)
(* the order zod reports them.  "aborted" is zod's INVALID: the value has  *)
(* the wrong type (or is no member of an enum); "dirty" means a check of a *)
(* well-typed value failed.  An object is aborted as soon as one of its    *)
(* keys is, and a refinement is not run on an aborted object.              *)
(***************************************************************************)
MaxNameLen == 255
MaxTypeLen == 100

Issue(field, msg) == [path |-> <<field>>, message |-> msg]

Parsed(st, iss) == [status |-> st, issues |-> iss]

\* zod's default message of an invalid_type issue.
InvalidTypeMsg(v, expected) ==
    IF v.type = "undefined" THEN "Required"
    ELSE "Expected " \o expected \o ", received " \o v.type

IsDigit(c) == c \in {"0", "1", "2", "3", "4", "5", "6", "7", "8", "9"}

\* /^\d{4}-\d{2}-\d{2}$/ on a text given as its characters.
MatchesDatePattern(cs) ==
    /\ Len(cs) = 10
    /\ \A i \in {1, 2, 3, 4, 6, 7, 9, 10} : IsDigit(cs[i])
    /\ cs[5] = "-"
    /\ cs[8] = "-"

\* z.string().min(1, minMsg).max(hi, maxMsg)
zStringMinMax(v, field, minMsg, hi, maxMsg) ==
    IF ~IsString(v)
    THEN Parsed("aborted", <<Issue(field, InvalidTypeMsg(v, "string"))>>)
    ELSE LET iss == (IF Len(v.s) < 1 THEN <<Issue(field, minMsg)>> ELSE <<>>)
                    \o (IF Len(v.s) > hi THEN <<Issue(field, maxMsg)>> ELSE <<>>)
         IN  Parsed(IF iss = <<>> THEN "valid" ELSE "dirty", iss)

\* z.string()
zString(v, field) ==
    IF ~IsString(v)
    THEN Parsed("aborted", <<Issue(field, InvalidTypeMsg(v, "string"))>>)
    ELSE Parsed("valid", <<>>)

\* z.string().regex(/^\d{4}-\d{2}-\d{2}$/, 'Invalid date format. Use YYYY-MM-DD')
zDateString(v, field) ==
    IF ~IsString(v)
    THEN Parsed("aborted", <<Issue(field, InvalidTypeMsg(v, "string"))>>)
    ELSE IF MatchesDatePattern(v.s)
         THEN Parsed("valid", <<>>)
         ELSE Parsed("dirty", <<Issue(field, "Invalid date format. Use YYYY-MM-DD")>>)

\* z.enum(values): typeMsg for a non-string, enumMsg for a string outside values.
zEnum(v, field, values, typeMsg, enumMsg) ==
    IF ~IsString(v)
    THEN Parsed("aborted", <<Issue(field, typeMsg)>>)
    ELSE IF v.s \in values
         THEN Parsed("valid", <<>>)
         ELSE Parsed("aborted", <<Issue(field, enumMsg)>>)

\* schema.optional(): undefined is accepted, anything else goes to the schema.
zOptional(v, inner) ==
    IF v.type = "undefined" THEN Parsed("valid", <<>>) ELSE inner

RECURSIVE ConcatIssues(_)
ConcatIssues(ps) ==
    IF ps = <<>> THEN <<>> ELSE Head(ps).issues \o ConcatIssues(Tail(ps))

\* z.object({...}) on the parses of its keys, in the order of the shape.
zObject(ps) ==
    Parsed(IF \E i \in DOMAIN ps : ps[i].status = "aborted" THEN "aborted"
           ELSE IF \E i \in DOMAIN ps : ps[i].status = "dirty" THEN "dirty"
           ELSE "valid",
           ConcatIssues(ps))

\* schema.refine(check, {message, path}); ok is the value of check(data).
zRefine(inner, ok, field, msg) ==
    IF inner.status = "aborted" THEN inner
    ELSE IF ok THEN inner
    ELSE Parsed("dirty", Append(inner.issues, Issue(field, msg)))

Vaccine == <<"v", "a", "c", "c", "i", "n", "e">>
Allergy == <<"a", "l", "l", "e", "r", "g", "y">>
Mild    == <<"m", "i", "l", "d">>
Severe  == <<"s", "e", "v", "e", "r", "e">>

RecordTypes == {Vaccine, Allergy}
Severities  == {Mild, Severe}

RecordTypeMsg == "Record type must be \"vaccine\" or \"allergy\""

\* The characters cs as one text.
RECURSIVE Text(_)
Text(cs) == IF cs = <<>> THEN "" ELSE Head(cs) \o Text(Tail(cs))

\* zod's default message of an invalid_enum_value issue for the string v.
InvalidEnumMsg(v, expected) ==
    IF IsString(v)
    THEN "Invalid enum value. Expected " \o expected \o ", received '" \o Text(v.s) \o "'"
    ELSE ""

SeverityEnumMsg(v) == InvalidEnumMsg(v, "'mild' | 'severe'")

\* The object schema shared by the record schemas, before .optional()/.refine().
createRecordObject(b) ==
    zObject(<<
        zEnum(b.record_type, "record_type", RecordTypes, RecordTypeMsg, RecordTypeMsg),
        zStringMinMax(b.name, "name", "Name is required", MaxNameLen, "Name is too long"),
        zOptional(b.date, zDateString(b.date, "date")),
        zOptional(b.reactions, zString(b.reactions, "reactions")),
        zOptional(b.severity,
                  zEnum(b.severity, "severity", Severities,
                        InvalidTypeMsg(b.severity, "'mild' | 'severe'"),
                        SeverityEnumMsg(b.severity)))
    >>)

VaccineDateMsg == "Vaccine records require a date"
AllergySeverityMsg == "Allergy records require severity (mild or severe)"

createRecordSchema(b) ==
    zRefine(
        zRefine(createRecordObject(b),
                ~(b.record_type = Str(Vaccine) /\ Falsy(b.date)),
                "date", VaccineDateMsg),
        ~(b.record_type = Str(Allergy) /\ Falsy(b.severity)),
        "severity", AllergySeverityMsg)

updateRecordSchema(b) ==
    zObject(<<
        zOptional(b.record_type,
                  zEnum(b.record_type, "record_type", RecordTypes,
                        InvalidTypeMsg(b.record_type, "'vaccine' | 'allergy'"),
                        InvalidEnumMsg(b.record_type, "'vaccine' | 'allergy'"))),
        zOptional(b.name,
                  zStringMinMax(b.name, "name", "Name is required", MaxNameLen, "Name is too long")),
        zOptional(b.date, zDateString(b.date, "date")),
        zOptional(b.reactions, zString(b.reactions, "reactions")),
        zOptional(b.severity,
                  zEnum(b.severity, "severity", Severities,
                        InvalidTypeMsg(b.severity, "'mild' | 'severe'"),
                        SeverityEnumMsg(b.severity)))
    >>)

createPetSchema(b) ==
    zObject(<<
        zStringMinMax(b.name, "name", "Name is required", MaxNameLen, "Name is too long"),
        zStringMinMax(b.animal_type, "animal_type", "Animal type is required",
                      MaxTypeLen, "Animal type is too long"),
        zStringMinMax(b.owner_name, "owner_name", "Owner name is required",
                      MaxNameLen, "Owner name is too long"),
        zDateString(b.date_of_birth, "date_of_birth")
    >>)

\* updatePetSchema.safeParse(req.body)
updatePetSchema(b) ==
    zObject(<<
        zOptional(b.name,
            zStringMinMax(b.name, "name", "Name is required", MaxNameLen, "Name is too long")),
        zOptional(b.animal_type,
            zStringMinMax(b.animal_type, "animal_type", "Animal type is required",
                          MaxTypeLen, "Animal type is too long")),
        zOptional(b.owner_name,
            zStringMinMax(b.owner_name, "owner_name", "Owner name is required",
                          MaxNameLen, "Owner name is too long")),
        zOptional(b.date_of_birth, zDateString(b.date_of_birth, "date_of_birth"))
    >>)

\* safeParse(...).success
Success(p) == p.status = "valid"

(***************************************************************************)
(* The store (PostgreSQL): the two tables of initializeSchema and the      *)
(* statements the handlers send.  A column holds Null or Str(text).        *)
(* created_at is kept as a logical time: statements are atomic, so rows    *)
(* are stamped in the order in which their ids are drawn.                  *)
(***************************************************************************)
DigitVal(c) ==
    CASE c = "0" -> 0 [] c = "1" -> 1 [] c = "2" -> 2 [] c = "3" -> 3 [] c = "4" -> 4
      [] c = "5" -> 5 [] c = "6" -> 6 [] c = "7" -> 7 [] c = "8" -> 8 [] c = "9" -> 9

YearOf(cs)  == 1000 * DigitVal(cs[1]) + 100 * DigitVal(cs[2]) + 10 * DigitVal(cs[3]) + DigitVal(cs[4])
MonthOf(cs) == 10 * DigitVal(cs[6]) + DigitVal(cs[7])
DayOf(cs)   == 10 * DigitVal(cs[9]) + DigitVal(cs[10])

IsLeap(y) == (y % 4 = 0 /\ y % 100 # 0) \/ y % 400 = 0

DaysInMonth(y, m) ==
    IF m = 2 THEN (IF IsLeap(y) THEN 29 ELSE 28)
    ELSE IF m \in {4, 6, 9, 11} THEN 30 ELSE 31

\* The cast of a YYYY-MM-DD text to a DATE column: the text must name a day
\* of the calendar, else the statement fails.
PgDateOk(cs) ==
    /\ YearOf(cs) >= 1
    /\ MonthOf(cs) \in 1..12
    /\ DayOf(cs) \in 1..DaysInMonth(YearOf(cs), MonthOf(cs))

\* A DATE parameter: NULL, or a text that casts to a date.
PgDateParamOk(v) == v = Null \/ (IsString(v) /\ MatchesDatePattern(v.s) /\ PgDateOk(v.s))

\* A parameter as node-postgres sends it: undefined is sent as NULL.
PgParam(v) == IF v = Undefined THEN Null ELSE v

\* name, animal_type, owner_name, date_of_birth ... NOT NULL
PetNotNullOk(row) ==
    \A f \in {"name", "animal_type", "owner_name", "date_of_birth"} : row[f] # Null

\* Mutant: the pet_id column without its REFERENCES clause.
ForeignKeyMissing(ps, petId) == TRUE

\* pet_id INTEGER NOT NULL REFERENCES pets(id)
ForeignKeyOk(ps, petId) == \E p \in ps : p.id = petId

\* Mutant: the reference to pets(id) without ON DELETE CASCADE taking effect.
CascadeMissing(rs, petId) == rs

\* ... ON DELETE CASCADE: the rows of medical_records left after pet petId is deleted.
CascadeDelete(rs, petId) == {r \in rs : r.pet_id # petId}

\* SELECT * FROM pets WHERE id = $1
SelectPetById(id) == {p \in pets : p.id = id}

\* Mutant: the uniqueness query is given the name for both of its parameters.
SelectPetByNameTwice(ps, name, owner) == {p \in ps : p.name = name /\ p.owner_name = name}

\* SELECT * FROM pets WHERE name = $1 AND owner_name = $2
SelectPetByNameOwner(ps, name, owner) == {p \in ps : p.name = name /\ p.owner_name = owner}

UpperCase == <<"A", "B", "C", "D", "E", "F", "G", "H", "I", "J", "K", "L", "M",
               "N", "O", "P", "Q", "R", "S", "T", "U", "V", "W", "X", "Y", "Z">>
LowerCase == <<"a", "b", "c", "d", "e", "f", "g", "h", "i", "j", "k", "l", "m",
               "n", "o", "p", "q", "r", "s", "t", "u", "v", "w", "x", "y", "z">>

LowerChar(ch) ==
    IF \E i \in DOMAIN UpperCase : UpperCase[i] = ch
    THEN LowerCase[CHOOSE i \in DOMAIN UpperCase : UpperCase[i] = ch]
    ELSE ch

\* text ILIKE pattern: % stands for any characters, _ for one character, a
\* backslash makes the character after it literal, and letter case is ignored
\* (for the letters A to Z).  A pattern that ends in a lone backslash is an
\* error in PostgreSQL; the patterns getAllPets builds end in %, so none does.
RECURSIVE LikeMatch(_, _)
LikeMatch(text, pattern) ==
    IF pattern = <<>> THEN text = <<>>
    ELSE IF Head(pattern) = "%"
    THEN \/ LikeMatch(text, Tail(pattern))
         \/ text # <<>> /\ LikeMatch(Tail(text), pattern)
    ELSE IF Head(pattern) = "_"
    THEN text # <<>> /\ LikeMatch(Tail(text), Tail(pattern))
    ELSE IF Head(pattern) = "\\"
    THEN /\ Len(pattern) >= 2
         /\ text # <<>>
         /\ LowerChar(Head(text)) = LowerChar(pattern[2])
         /\ LikeMatch(Tail(text), Tail(Tail(pattern)))
    ELSE /\ text # <<>>
         /\ LowerChar(Head(text)) = LowerChar(Head(pattern))
         /\ LikeMatch(Tail(text), Tail(pattern))

\* name ILIKE $1 with the parameter `%${search}%`: the wildcards of the
\* search text stay wildcards.
ILike(name, search) == LikeMatch(name, <<"%">> \o search \o <<"%">>)

RECURSIVE OrderPetsByCreatedDesc(_)
OrderPetsByCreatedDesc(ps) ==
    IF ps = {} THEN <<>>
    ELSE LET first == CHOOSE a \in ps : \A b \in ps \ {a} : a.created_at > b.created_at
         IN  <<first>> \o OrderPetsByCreatedDesc(ps \ {first})

\* SELECT * FROM pets [WHERE name ILIKE $1 [AND animal_type = $2]]
\* ORDER BY created_at DESC; `if (search)`, `if (animal_type)`: a filter
\* that is absent or empty adds no condition.
SelectPets(search, animal_type) ==
    OrderPetsByCreatedDesc(
        { p \in pets :
            /\ ~Falsy(search) => ILike(p.name.s, search.s)
            /\ ~Falsy(animal_type) => p.animal_type = animal_type })

\* SELECT * FROM medical_records WHERE id = $1
SelectRecordById(id) == {r \in records : r.id = id}

\* The row of a one-row result.
TheRow(rows) == CHOOSE r \in rows : TRUE

\* ORDER BY date DESC, created_at DESC.  PostgreSQL sorts NULL as larger than
\* every value, so it comes first in a descending order.
DateKey(r) ==
    IF r.date = Null THEN 100000000
    ELSE 10000 * YearOf(r.date.s) + 100 * MonthOf(r.date.s) + DayOf(r.date.s)

ComesBefore(a, b) ==
    \/ DateKey(a) > DateKey(b)
    \/ DateKey(a) = DateKey(b) /\ a.created_at > b.created_at

RECURSIVE OrderByDateDesc(_)
OrderByDateDesc(rs) ==
    IF rs = {} THEN <<>>
    ELSE LET first == CHOOSE a \in rs : \A b \in rs \ {a} : ComesBefore(a, b)
         IN  <<first>> \o OrderByDateDesc(rs \ {first})

\* SELECT * FROM medical_records WHERE pet_id = $1 ORDER BY date DESC, created_at DESC
SelectRecordsByPet(petId) == OrderByDateDesc({r \in records : r.pet_id = petId})

(***************************************************************************)
(* The queries of the dashboard.                                           *)
(***************************************************************************)
\* The number of days from 0001-01-01 to the first day of year y.
DaysBeforeYear(y) ==
    365 * (y - 1) + ((y - 1) \div 4) - ((y - 1) \div 100) + ((y - 1) \div 400)

RECURSIVE DaysBeforeMonth(_, _)
DaysBeforeMonth(y, m) ==
    IF m = 1 THEN 0 ELSE DaysInMonth(y, m - 1) + DaysBeforeMonth(y, m - 1)

\* A date as a number of days, so that date + INTERVAL 'n days' is + n.
DayNumber(cs) ==
    DaysBeforeYear(YearOf(cs)) + DaysBeforeMonth(YearOf(cs), MonthOf(cs)) + DayOf(cs)

WindowDays == 30
StatsLimit == 10

\* LIMIT n
Limit(rows, n) == SubSeq(rows, 1, IF Len(rows) < n THEN Len(rows) ELSE n)

\* SELECT COUNT(*) as count FROM t
CountRows(rows) == Cardinality(rows)

\* The key whose assignment sets the prototype of a JavaScript object.
ProtoKey == <<"_", "_", "p", "r", "o", "t", "o", "_", "_">>

\* SELECT col, COUNT(*) as count FROM t GROUP BY col, reduced to an object by
\* acc[row.col] = parseInt(row.count, 10).  The assignment of a number to
\* acc["__proto__"] creates no key, so that group is not in the object.
CountBy(rows, col) ==
    [v \in {r[col] : r \in rows} \ {Str(ProtoKey)} |->
        Cardinality({r \in rows : r[col] = v})]

\* SELECT mr.*, p.name as pet_name, p.animal_type FROM medical_records mr
\* JOIN pets p ON mr.pet_id = p.id
JoinPets(rs, ps) ==
    { [record |-> r, pet_name |-> p.name, animal_type |-> p.animal_type] :
        r \in {x \in rs : \E y \in ps : y.id = x.pet_id},
        p \in {y \in ps : \E x \in rs : y.id = x.pet_id} } \cap
    { j \in [record : rs, pet_name : {p.name : p \in ps},
             animal_type : {p.animal_type : p \in ps}] :
        \E p \in ps : /\ p.id = j.record.pet_id
                      /\ p.name = j.pet_name
                      /\ p.animal_type = j.animal_type }

\* mr.date >= CURRENT_DATE - INTERVAL '30 days' AND
\* mr.date <= CURRENT_DATE + INTERVAL '30 days'; a NULL date satisfies neither.
InWindow(r, today) ==
    /\ r.date # Null
    /\ DayNumber(r.date.s) >= DayNumber(today) - WindowDays
    /\ DayNumber(r.date.s) <= DayNumber(today) + WindowDays

\* The orders of the rows js that ORDER BY mr.date ASC allows: rows of the
\* same date come in an order the statement does not fix.
OrdersByDateAsc(js) ==
    { q \in [1..Cardinality(js) -> js] :
        /\ \A i, j \in DOMAIN q : i # j => q[i] # q[j]
        /\ \A i, j \in DOMAIN q :
              i < j => DayNumber(q[i].record.date.s) <= DayNumber(q[j].record.date.s) }

\* ... WHERE mr.record_type = 'vaccine' AND (window) ORDER BY mr.date ASC LIMIT 10
SelectUpcomingVaccines(rs, ps, today) ==
    { Limit(q, StatsLimit) :
        q \in OrdersByDateAsc({ j \in JoinPets(rs, ps) :
                                  /\ j.record.record_type = Str(Vaccine)
                                  /\ InWindow(j.record, today) }) }

RECURSIVE OrderByCreatedDesc(_)
OrderByCreatedDesc(js) ==
    IF js = {} THEN <<>>
    ELSE LET first == CHOOSE a \in js :
                         \A b \in js \ {a} : a.record.created_at > b.record.created_at
         IN  <<first>> \o OrderByCreatedDesc(js \ {first})

\* ... ORDER BY mr.created_at DESC LIMIT 10
SelectRecentRecords(rs, ps) == Limit(OrderByCreatedDesc(JoinPets(rs, ps)), StatsLimit)

(***************************************************************************)
(* The environment: the payloads the clients send.                         *)
(***************************************************************************)
Rex == <<"R", "e", "x">>
Tom == <<"T", "o", "m">>
Alice == <<"A", "l", "i", "c", "e">>
Dog == <<"d", "o", "g">>
Cat == <<"c", "a", "t">>
Rabies == <<"R", "a", "b", "i", "e", "s">>
Pollen == <<"P", "o", "l", "l", "e", "n">>
Hives == <<"h", "i", "v", "e", "s">>
Itchy == <<"i", "t", "c", "h", "y">>
Surgery == <<"s", "u", "r", "g", "e", "r", "y">>
High == <<"h", "i", "g", "h">>
SlashDate2020 == <<"0", "1", "/", "0", "1", "/", "2", "0", "2", "0">>
SlashDate2024 == <<"0", "3", "/", "0", "1", "/", "2", "0", "2", "4">>

Date20200101 == <<"2", "0", "2", "0", "-", "0", "1", "-", "0", "1">>
Date20210615 == <<"2", "0", "2", "1", "-", "0", "6", "-", "1", "5">>
Date20240301 == <<"2", "0", "2", "4", "-", "0", "3", "-", "0", "1">>
Date20240520 == <<"2", "0", "2", "4", "-", "0", "5", "-", "2", "0">>
Date20240415 == <<"2", "0", "2", "4", "-", "0", "4", "-", "1", "5">>
Date20240331 == <<"2", "0", "2", "4", "-", "0", "3", "-", "3", "1">>
\* Matches the pattern of the schemas and is no calendar date.
Date20210230 == <<"2", "0", "2", "1", "-", "0", "2", "-", "3", "0">>

PetBody(name, animalType, owner, dob) ==
    [name |-> name, animal_type |-> animalType, owner_name |-> owner, date_of_birth |-> dob]

RecordBody(recordType, name, date, reactions, severity) ==
    [record_type |-> recordType, name |-> name, date |-> date,
     reactions |-> reactions, severity |-> severity]

\* Pets with the same (name, owner_name) and different other fields, a pet
\* of another name, and a body that fails validation.
PetPayloads ==
    { PetBody(Str(Rex), Str(Dog), Str(Alice), Str(Date20200101)),
      PetBody(Str(Rex), Str(Cat), Str(Alice), Str(Date20210615)),
      PetBody(Str(Tom), Str(Dog), Str(Alice), Str(Date20200101)),
      PetBody(Str(Tom), Str(Cat), Str(Alice), Str(Date20210230)),
      PetBody(Str(Rex), Str(Dog), Str(Alice), Str(SlashDate2020)),
      PetBody(Str(<<>>), Str(Dog), Str(Alice), Str(SlashDate2020)) }

\* The payloads of the concurrent workload.
CorePetPayloads ==
    { PetBody(Str(Rex), Str(Dog), Str(Alice), Str(Date20200101)),
      PetBody(Str(Tom), Str(Cat), Str(Alice), Str(Date20210615)) }

\* The payloads of a scenario: also a pet whose animal_type is "__proto__".
ScenarioPetPayloads ==
    CorePetPayloads \cup
    { PetBody(Str(Tom), Str(ProtoKey), Str(Alice), Str(Date20210615)) }

CoreCreatePayloads ==
    { RecordBody(Str(Vaccine), Str(Rabies), Str(Date20240301), Undefined, Undefined),
      RecordBody(Str(Allergy), Str(Pollen), Undefined, Str(Hives), Str(Mild)) }

\* The payloads of a scenario: a second vaccine with a later date.
ScenarioCreatePayloads ==
    CoreCreatePayloads \cup
    { RecordBody(Str(Vaccine), Str(Rabies), Str(Date20240415), Undefined, Undefined) }

CoreUpdatePayloads ==
    { RecordBody(Undefined, Undefined, Undefined, Str(Itchy), Undefined),
      RecordBody(Undefined, Undefined, Str(Date20240520), Undefined, Undefined) }

CorePetUpdatePayloads ==
    { PetBody(Str(Tom), Str(Cat), Str(Alice), Str(Date20210615)),
      PetBody(Str(Tom), Undefined, Undefined, Undefined) }

\* updatePet bodies with every subset of the four fields, and with a
\* date_of_birth that fails validation.
PetUpdatePayloads ==
    { PetBody(n, t, o, d) :
        n \in {Undefined, Str(Tom)}, t \in {Undefined, Str(Cat)},
        o \in {Undefined, Str(Alice)},
        d \in {Undefined, Str(Date20210615), Str(SlashDate2020)} }

\* The payloads of the one-request-at-a-time workload: every combination of
\* the field values below.
RecordTypeValues == {Undefined, Str(Vaccine), Str(Allergy), Str(Surgery)}
NameValues       == {Undefined, Str(Rabies)}
DateValues       == {Undefined, Null, Str(<<>>), Str(Date20240301)}
ReactionValues   == {Undefined, Str(Itchy)}
SeverityValues   == {Undefined, Str(<<>>), Str(Mild)}

AllRecordPayloads ==
    { RecordBody(t, n, d, r, s) :
        t \in RecordTypeValues, n \in NameValues, d \in DateValues,
        r \in ReactionValues, s \in SeverityValues }

\* An updateRecord body that has a pet_id key besides a field of the schema.
UpdatePayloadWithPetId ==
    [record_type |-> Undefined, name |-> Undefined, date |-> Undefined,
     reactions |-> Str(Itchy), severity |-> Undefined, pet_id |-> Num(2)]

\* CURRENT_DATE of the store while the requests run: 30 days after the date
\* of the vaccine payloads, 50 days before the date of the update payloads.
CurrentDate == Date20240331

\* The query strings of GET /api/pets: ?search= and ?animal_type=.
NoFilter == [search |-> Undefined, animal_type |-> Undefined]

AllFilters ==
    [search : {Undefined, Str(<<"r">>), Str(<<"e", "_">>)},
     animal_type : {Undefined, Str(<<>>), Str(Cat)}]

\* A workload: how many clients send requests, how many requests they send
\* in all, and which payloads.
ConcurrentEnv == [clients |-> NumClients, requests |-> MaxOverlap, payloads |-> "core"]

SequentialEnv == [clients |-> 1, requests |-> MaxRequests, payloads |-> "all"]

ScenarioEnv == [clients |-> 1, requests |-> MaxScenario, payloads |-> "scenario"]

RaceEnv == [clients |-> NumClients, requests |-> MaxRace, payloads |-> "core"]

\* The payloads of the workload env names.
PetBodies ==
    IF env.payloads = "all" THEN PetPayloads
    ELSE IF env.payloads = "scenario" THEN ScenarioPetPayloads
    ELSE CorePetPayloads

PetUpdateBodies == IF env.payloads = "all" THEN PetUpdatePayloads ELSE CorePetUpdatePayloads

\* The values of the fields of the record form when the user submits it: a
\* text input that is empty holds "", the severity select holds undefined
\* until one is chosen and null when loaded from a record without severity.
AllRecordForms ==
    { RecordBody(t, n, d, r, v) :
        t \in {Str(Vaccine), Str(Allergy)}, n \in {Str(<<>>), Str(Rabies)},
        d \in {Str(<<>>), Str(Date20240301)}, r \in {Str(<<>>), Str(Itchy)},
        v \in {Undefined, Null, Str(Mild)} }

CoreRecordForms ==
    { RecordBody(Str(Vaccine), Str(Rabies), Str(Date20240301), Str(<<>>), Undefined) }

RecordForms == IF env.payloads = "core" THEN CoreRecordForms ELSE AllRecordForms

PetFilters == IF env.payloads = "core" THEN {NoFilter} ELSE AllFilters

CreateBodies ==
    IF env.payloads = "all" THEN AllRecordPayloads
    ELSE IF env.payloads = "scenario" THEN ScenarioCreatePayloads
    ELSE CoreCreatePayloads

UpdateBodies ==
    IF env.payloads = "all" THEN AllRecordPayloads \cup {UpdatePayloadWithPetId}
    ELSE CoreUpdatePayloads

(***************************************************************************)
(* Requests.  req[c] is the handler invocation client c waits for: the     *)
(* route parameter, the body, whether the handler is suspended at the      *)
(* await of its first statement ("check") or of its second ("write"), the  *)
(* row it read at its existence check, and at the end the response         *)
(* ("done").                                                               *)
(*                                                                         *)
(* The first action of a handler is the arrival of the request and the     *)
(* synchronous code up to the first await; every later action is the end   *)
(* of the statement that is awaited and the code after it up to the next   *)
(* await or the response.  The handlers of other requests run between.     *)
(***************************************************************************)
Clients == 1..NumClients

PetIds == 1..MaxPets
RecordIds == 1..MaxRecords

NoBody == [none |-> TRUE]
NoRow  == [none |-> TRUE]

\* responses counts the res.json / res.status(...).json calls of the
\* invocation, nexts its next(err) calls.
Idle == [pc |-> "idle", op |-> "none", id |-> 0, body |-> NoBody, row |-> NoRow,
         status |-> 0, error |-> "", details |-> <<>>, result |-> NoRow,
         responses |-> 0, nexts |-> 0, form |-> NoRow]

\* req.params and req.body of a request that has arrived.
Request(op, id, body) == [Idle EXCEPT !.op = op, !.id = id, !.body = body]

\* The handler of request r is suspended at the await of its first statement.
Called(r) == [r EXCEPT !.pc = "check"]

\* The handler of request r is suspended at the await of its second statement.
Suspended(r, row) == [r EXCEPT !.pc = "write", !.row = row]

\* res.status(status).json(...): the handler of request r has answered.
Answered(r, status, error, details, result) ==
    [r EXCEPT !.pc = "done", !.row = NoRow, !.status = status, !.error = error,
              !.details = details, !.result = result, !.responses = @ + 1]

\* catch (err) { next(err) }: express answers 500.
Failed(r) ==
    [r EXCEPT !.pc = "done", !.row = NoRow, !.status = 500,
              !.error = "Internal Server Error", !.details = <<>>, !.result = NoRow,
              !.nexts = @ + 1]

\* sys.held counts the clients that are checked out of the pool: the client
\* of connect() between pool.connect() and client.release(), and the client
\* pool.query(text, params) works with while its statement is awaited.

\* pool.connect(), and the start of pool.query: a client is checked out.
Take(held) == held + 1

\* Mutant: a client that is not given back.
ReleaseNever(held) == held

\* client.release(), and the end of pool.query, also when its statement
\* throws: the client is given back.
Release(held) == held - 1

\* The handler that goes on to slot awaits a statement there: query() has
\* called pool.query again.
NextStatement(held, slot) == IF slot.pc \notin {"idle", "done"} THEN Take(held) ELSE held

At(c, op, pc) == req[c].op = op /\ req[c].pc = pc

InFlight(op) ==
    Cardinality({c \in Clients : req[c].op = op /\ req[c].pc \notin {"idle", "done"}})

\* Client c may send a request.
MaySend(c) ==
    /\ sys.server = "listening"
    /\ c <= env.clients
    /\ req[c].pc = "idle"
    /\ sent < env.requests

\* Client c sends request r; its handler runs to the await of its first
\* statement, for which pool.query takes a client.
Call(c, r) ==
    /\ sent' = sent + 1
    /\ req' = [req EXCEPT ![c] = r]
    /\ sys' = [sys EXCEPT !.held = NextStatement(@, r)]

\* The statement the handler of client c awaits ends, its client is given
\* back, and the handler goes on to slot.
Resume(c, slot) ==
    /\ sent' = sent
    /\ req' = [req EXCEPT ![c] = slot]
    /\ sys' = [sys EXCEPT !.held = NextStatement(Release(@), slot)]

\* Client c sends a request that is answered without a statement.
Deliver(c, slot) ==
    /\ sent' = sent + 1
    /\ req' = [req EXCEPT ![c] = slot]
    /\ sys' = sys

\* The client has read the response.
Finish(c) ==
    /\ req[c].pc = "done"
    /\ req' = [req EXCEPT ![c] = Idle]
    /\ UNCHANGED <<pets, records, petSeq, recSeq, sent, env, sys>>

(***************************************************************************)
(* petController                                                           *)
(***************************************************************************)
\* createPet: validation, which answers without a statement when it fails;
\* then the handler awaits its uniqueness query.
CreatePetCall(c) ==
    /\ MaySend(c)
    /\ petSeq + InFlight("createPet") < MaxPets
    /\ \E b \in PetBodies :
         LET r == Request("createPet", 0, b)
             validationResult == createPetSchema(b)
         IN  IF ~Success(validationResult)
             THEN Deliver(c, Answered(r, 400, "Validation failed",
                                      validationResult.issues, NoRow))
             ELSE Call(c, Called(r))
    /\ UNCHANGED <<pets, records, petSeq, recSeq, env>>

\* SELECT * FROM pets WHERE name = $1 AND owner_name = $2
CreatePetCheck(c) ==
    /\ At(c, "createPet", "check")
    /\ LET r == req[c]
           existingPet == SelectPetByNameOwner(pets, r.body.name, r.body.owner_name)
       IN  Resume(c, IF Cardinality(existingPet) > 0
                     THEN Answered(r, 400, "Pet already exists", <<>>, NoRow)
                     ELSE Suspended(r, NoRow))
    /\ UNCHANGED <<pets, records, petSeq, recSeq, env>>

\* The row INSERT INTO pets ... RETURNING * creates.
NewPet(id, b) ==
    [id |-> id, name |-> b.name, animal_type |-> b.animal_type,
     owner_name |-> b.owner_name, date_of_birth |-> b.date_of_birth, created_at |-> id]

\* Mutant: the INSERT refuses a row whose (name, owner_name) is stored already,
\* as under a UNIQUE (name, owner_name) constraint.
CreatePetInsertUnique(c) ==
    /\ At(c, "createPet", "write")
    /\ petSeq' = petSeq + 1
    /\ IF \E p \in pets : p.name = req[c].body.name /\ p.owner_name = req[c].body.owner_name
       THEN /\ pets' = pets
            /\ Resume(c, Failed(req[c]))
       ELSE /\ pets' = pets \cup {NewPet(petSeq + 1, req[c].body)}
            /\ Resume(c, Answered(req[c], 201, "", <<>>, NewPet(petSeq + 1, req[c].body)))
    /\ UNCHANGED <<records, recSeq, env>>

\* INSERT INTO pets (...) VALUES ($1, $2, $3, $4) RETURNING *
\* A parameter is cast when it is bound, before the statement runs: a date
\* that does not cast fails the statement before an id is drawn.
CreatePetInsert(c) ==
    /\ At(c, "createPet", "write")
    /\ IF PgDateParamOk(req[c].body.date_of_birth)
       THEN /\ petSeq' = petSeq + 1
            /\ pets' = pets \cup {NewPet(petSeq + 1, req[c].body)}
            /\ Resume(c, Answered(req[c], 201, "", <<>>, NewPet(petSeq + 1, req[c].body)))
       ELSE /\ petSeq' = petSeq
            /\ pets' = pets
            /\ Resume(c, Failed(req[c]))
    /\ UNCHANGED <<records, recSeq, env>>

\* getAllPets: the conditions are built from req.query; the handler awaits
\* its query.
GetAllPetsCall(c) ==
    /\ MaySend(c)
    /\ \E q \in PetFilters : Call(c, Called(Request("getAllPets", 0, q)))
    /\ UNCHANGED <<pets, records, petSeq, recSeq, env>>

\* SELECT * FROM pets ... ORDER BY created_at DESC; res.json(result.rows)
GetAllPets(c) ==
    /\ At(c, "getAllPets", "check")
    /\ LET r == req[c]
       IN  Resume(c, Answered(r, 200, "", <<>>,
                              SelectPets(r.body.search, r.body.animal_type)))
    /\ UNCHANGED <<pets, records, petSeq, recSeq, env>>

\* getPetById: the handler awaits its query.
GetPetByIdCall(c) ==
    /\ MaySend(c)
    /\ \E id \in PetIds : Call(c, Called(Request("getPetById", id, NoBody)))
    /\ UNCHANGED <<pets, records, petSeq, recSeq, env>>

\* SELECT * FROM pets WHERE id = $1; res.json(petResult.rows[0])
GetPetById(c) ==
    /\ At(c, "getPetById", "check")
    /\ LET r == req[c]
           petResult == SelectPetById(r.id)
       IN  Resume(c, IF Cardinality(petResult) = 0
                     THEN Answered(r, 404, "Pet not found", <<>>, NoRow)
                     ELSE Answered(r, 200, "", <<>>, TheRow(petResult)))
    /\ UNCHANGED <<pets, records, petSeq, recSeq, env>>

\* Mutant: the handler validates the body before it looks the pet up.
UpdatePetCheckValidatesFirst(c) ==
    /\ At(c, "updatePet", "check")
    /\ LET r == req[c]
           checkResult == SelectPetById(r.id)
           validationResult == updatePetSchema(r.body)
       IN  Resume(c, IF ~Success(validationResult)
                     THEN Answered(r, 400, "Validation failed", validationResult.issues, NoRow)
                     ELSE IF Cardinality(checkResult) = 0
                     THEN Answered(r, 404, "Pet not found", <<>>, NoRow)
                     ELSE Suspended(r, NoRow))
    /\ UNCHANGED <<pets, records, petSeq, recSeq, env>>

\* updatePet: the handler awaits its existence check.
UpdatePetCall(c) ==
    /\ MaySend(c)
    /\ \E id \in PetIds, b \in PetUpdateBodies :
         Call(c, Called(Request("updatePet", id, b)))
    /\ UNCHANGED <<pets, records, petSeq, recSeq, env>>

\* SELECT * FROM pets WHERE id = $1, then validation
UpdatePetCheck(c) ==
    /\ At(c, "updatePet", "check")
    /\ LET r == req[c]
           checkResult == SelectPetById(r.id)
           validationResult == updatePetSchema(r.body)
       IN  Resume(c, IF Cardinality(checkResult) = 0
                     THEN Answered(r, 404, "Pet not found", <<>>, NoRow)
                     ELSE IF ~Success(validationResult)
                     THEN Answered(r, 400, "Validation failed", validationResult.issues, NoRow)
                     ELSE Suspended(r, NoRow))
    /\ UNCHANGED <<pets, records, petSeq, recSeq, env>>

\* SET name = $1, animal_type = $2, owner_name = $3, date_of_birth = $4
\* with [name, animal_type, owner_name, date_of_birth] of the body.
SetPet(stored, b) ==
    [stored EXCEPT !.name          = PgParam(b.name),
                   !.animal_type   = PgParam(b.animal_type),
                   !.owner_name    = PgParam(b.owner_name),
                   !.date_of_birth = PgParam(b.date_of_birth)]

\* UPDATE pets SET ... WHERE id = ${id} RETURNING *; res.json(result.rows[0])
UpdatePetWrite(c) ==
    /\ At(c, "updatePet", "write")
    /\ LET target == SelectPetById(req[c].id) IN
       IF ~PgDateParamOk(PgParam(req[c].body.date_of_birth))
       THEN /\ pets' = pets
            /\ Resume(c, Failed(req[c]))
       ELSE IF target = {}
       THEN /\ pets' = pets
            /\ Resume(c, Answered(req[c], 200, "", <<>>, Undefined))
       ELSE IF ~PetNotNullOk(SetPet(TheRow(target), req[c].body))
       THEN /\ pets' = pets
            /\ Resume(c, Failed(req[c]))
       ELSE /\ pets' = (pets \ target) \cup {SetPet(TheRow(target), req[c].body)}
            /\ Resume(c, Answered(req[c], 200, "", <<>>, SetPet(TheRow(target), req[c].body)))
    /\ UNCHANGED <<records, petSeq, recSeq, env>>

\* deletePet: the handler awaits its existence check.
DeletePetCall(c) ==
    /\ MaySend(c)
    /\ \E id \in PetIds : Call(c, Called(Request("deletePet", id, NoBody)))
    /\ UNCHANGED <<pets, records, petSeq, recSeq, env>>

\* SELECT * FROM pets WHERE id = $1
DeletePetCheck(c) ==
    /\ At(c, "deletePet", "check")
    /\ LET r == req[c] IN
       Resume(c, IF Cardinality(SelectPetById(r.id)) = 0
                 THEN Answered(r, 404, "Pet not found", <<>>, NoRow)
                 ELSE Suspended(r, NoRow))
    /\ UNCHANGED <<pets, records, petSeq, recSeq, env>>

\* DELETE FROM pets WHERE id = $1
DeletePetDelete(c) ==
    /\ At(c, "deletePet", "write")
    /\ pets' = {p \in pets : p.id # req[c].id}
    /\ records' = IF SelectPetById(req[c].id) # {}
                  THEN CascadeDelete(records, req[c].id)
                  ELSE records
    /\ Resume(c, Answered(req[c], 200, "", <<>>, [message |-> "Pet deleted successfully"]))
    /\ UNCHANGED <<petSeq, recSeq, env>>

(***************************************************************************)
(* recordController                                                        *)
(***************************************************************************)
\* Mutant: the handler goes on to the records query whatever the pet query returned.
GetRecordsCheckIgnored(c) ==
    /\ At(c, "getRecordsByPetId", "check")
    /\ Resume(c, Suspended(req[c], NoRow))
    /\ UNCHANGED <<pets, records, petSeq, recSeq, env>>

\* getRecordsByPetId: the handler awaits its existence check.
GetRecordsCall(c) ==
    /\ MaySend(c)
    /\ \E id \in PetIds : Call(c, Called(Request("getRecordsByPetId", id, NoBody)))
    /\ UNCHANGED <<pets, records, petSeq, recSeq, env>>

\* SELECT * FROM pets WHERE id = $1
GetRecordsCheck(c) ==
    /\ At(c, "getRecordsByPetId", "check")
    /\ LET r == req[c] IN
       Resume(c, IF Cardinality(SelectPetById(r.id)) = 0
                 THEN Answered(r, 404, "Pet not found", <<>>, NoRow)
                 ELSE Suspended(r, NoRow))
    /\ UNCHANGED <<pets, records, petSeq, recSeq, env>>

\* SELECT * FROM medical_records WHERE pet_id = $1 ORDER BY ...; res.json(result.rows)
GetRecordsSelect(c) ==
    /\ At(c, "getRecordsByPetId", "write")
    /\ Resume(c, Answered(req[c], 200, "", <<>>, SelectRecordsByPet(req[c].id)))
    /\ UNCHANGED <<pets, records, petSeq, recSeq, env>>

\* createRecord: validation, which answers without a statement when it
\* fails; then the handler awaits its existence check.
CreateRecordCall(c) ==
    /\ MaySend(c)
    /\ recSeq + InFlight("createRecord") < MaxRecords
    /\ \E petId \in PetIds, b \in CreateBodies :
         LET r == Request("createRecord", petId, b)
             validationResult == createRecordSchema(b)
         IN  IF ~Success(validationResult)
             THEN Deliver(c, Answered(r, 400, "Validation failed",
                                      validationResult.issues, NoRow))
             ELSE Call(c, Called(r))
    /\ UNCHANGED <<pets, records, petSeq, recSeq, env>>

\* SELECT * FROM pets WHERE id = $1
CreateRecordCheck(c) ==
    /\ At(c, "createRecord", "check")
    /\ LET r == req[c] IN
       Resume(c, IF Cardinality(SelectPetById(r.id)) = 0
                 THEN Answered(r, 404, "Pet not found", <<>>, NoRow)
                 ELSE Suspended(r, NoRow))
    /\ UNCHANGED <<pets, records, petSeq, recSeq, env>>

\* The row INSERT INTO medical_records ... RETURNING * creates.
NewRecord(id, petId, b) ==
    [id |-> id, pet_id |-> petId, record_type |-> b.record_type, name |-> b.name,
     date |-> OrNull(b.date), reactions |-> OrNull(b.reactions),
     severity |-> OrNull(b.severity), created_at |-> id]

\* INSERT INTO medical_records (...) VALUES ($1, ..., $6) RETURNING *
\* A date parameter that does not cast fails the statement when it is bound,
\* before an id is drawn; the foreign key is checked on the row that was
\* built, so a statement it refuses has used an id up.
CreateRecordInsert(c) ==
    /\ At(c, "createRecord", "write")
    /\ IF ~PgDateParamOk(OrNull(req[c].body.date))
       THEN /\ recSeq' = recSeq
            /\ records' = records
            /\ Resume(c, Failed(req[c]))
       ELSE IF ForeignKeyOk(pets, req[c].id)
       THEN /\ recSeq' = recSeq + 1
            /\ records' = records \cup {NewRecord(recSeq + 1, req[c].id, req[c].body)}
            /\ Resume(c, Answered(req[c], 201, "", <<>>,
                                  NewRecord(recSeq + 1, req[c].id, req[c].body)))
       ELSE /\ recSeq' = recSeq + 1
            /\ records' = records
            /\ Resume(c, Failed(req[c]))
    /\ UNCHANGED <<pets, petSeq, env>>

\* Mutant: the handler writes the values of the body before it validates them.
UpdateRecordCheckWritesFirst(c) ==
    /\ At(c, "updateRecord", "check")
    /\ LET r == req[c]
           checkResult == SelectRecordById(r.id)
           validationResult == updateRecordSchema(r.body)
       IN  /\ Resume(c, IF Cardinality(checkResult) = 0
                        THEN Answered(r, 404, "Medical record not found", <<>>, NoRow)
                        ELSE IF ~Success(validationResult)
                        THEN Answered(r, 400, "Validation failed", validationResult.issues, NoRow)
                        ELSE Suspended(r, TheRow(checkResult)))
           /\ records' = IF Cardinality(checkResult) = 0
                         THEN records
                         ELSE (records \ checkResult) \cup
                              {[TheRow(checkResult) EXCEPT
                                   !.reactions = PgParam(r.body.reactions)]}
    /\ UNCHANGED <<pets, petSeq, recSeq, env>>

\* updateRecord: the handler awaits its existence check.
UpdateRecordCall(c) ==
    /\ MaySend(c)
    /\ \E id \in RecordIds, b \in UpdateBodies :
         Call(c, Called(Request("updateRecord", id, b)))
    /\ UNCHANGED <<pets, records, petSeq, recSeq, env>>

\* SELECT * FROM medical_records WHERE id = $1, then validation
UpdateRecordCheck(c) ==
    /\ At(c, "updateRecord", "check")
    /\ LET r == req[c]
           checkResult == SelectRecordById(r.id)
           validationResult == updateRecordSchema(r.body)
       IN  Resume(c, IF Cardinality(checkResult) = 0
                     THEN Answered(r, 404, "Medical record not found", <<>>, NoRow)
                     ELSE IF ~Success(validationResult)
                     THEN Answered(r, 400, "Validation failed", validationResult.issues, NoRow)
                     ELSE Suspended(r, TheRow(checkResult)))
    /\ UNCHANGED <<pets, records, petSeq, recSeq, env>>

\* Mutant: the value of the body is used also when the body does not have it.
ProvidedOrNot(v, existing) == v

\* field !== undefined ? field : existingRecord.field
Provided(v, existing) == IF v # Undefined THEN v ELSE existing

\* date !== undefined ? (date === "" ? null : date) : existingRecord.date
FinalDate(date, existing) ==
    IF date # Undefined
    THEN (IF IsString(date) /\ Len(date.s) = 0 THEN Null ELSE date)
    ELSE existing

\* The values the UPDATE sets, from the body and the row read at the check.
FinalRecord(existingRecord, b) ==
    [existingRecord EXCEPT
        !.record_type = Provided(b.record_type, existingRecord.record_type),
        !.name        = Provided(b.name, existingRecord.name),
        !.date        = FinalDate(b.date, existingRecord.date),
        !.reactions   = Provided(b.reactions, existingRecord.reactions),
        !.severity    = Provided(b.severity, existingRecord.severity)]

\* The columns an UPDATE of medical_records writes; id, pet_id and created_at
\* are those of the stored row.
SetRecord(stored, final) ==
    [stored EXCEPT !.record_type = final.record_type, !.name = final.name,
                   !.date = final.date, !.reactions = final.reactions,
                   !.severity = final.severity]

\* Mutant: the UPDATE also sets pet_id when the body has the key.
UpdateRecordWriteWithPetId(c) ==
    /\ At(c, "updateRecord", "write")
    /\ LET final == FinalRecord(req[c].row, req[c].body)
           target == SelectRecordById(req[c].id)
           petId == IF "pet_id" \in DOMAIN req[c].body
                    THEN req[c].body.pet_id.n ELSE req[c].row.pet_id
       IN  IF ~PgDateParamOk(final.date)
           THEN /\ records' = records
                /\ Resume(c, Failed(req[c]))
           ELSE IF target = {}
           THEN /\ records' = records
                /\ Resume(c, Answered(req[c], 200, "", <<>>, Undefined))
           ELSE /\ records' = (records \ target) \cup
                       {[SetRecord(TheRow(target), final) EXCEPT !.pet_id = petId]}
                /\ Resume(c, Answered(req[c], 200, "", <<>>,
                       [SetRecord(TheRow(target), final) EXCEPT !.pet_id = petId]))
    /\ UNCHANGED <<pets, petSeq, recSeq, env>>

\* UPDATE medical_records SET ... WHERE id = $6 RETURNING *; res.status(200).json(result.rows[0])
UpdateRecordWrite(c) ==
    /\ At(c, "updateRecord", "write")
    /\ LET final == FinalRecord(req[c].row, req[c].body)
           target == SelectRecordById(req[c].id)
       IN  IF ~PgDateParamOk(final.date)
           THEN /\ records' = records
                /\ Resume(c, Failed(req[c]))
           ELSE IF target = {}
           THEN /\ records' = records
                /\ Resume(c, Answered(req[c], 200, "", <<>>, Undefined))
           ELSE /\ records' = (records \ target) \cup {SetRecord(TheRow(target), final)}
                /\ Resume(c, Answered(req[c], 200, "", <<>>, SetRecord(TheRow(target), final)))
    /\ UNCHANGED <<pets, petSeq, recSeq, env>>

\* Mutant: the handler answers 404 and goes on to its DELETE.
DeleteRecordCheckNoReturn(c) ==
    /\ At(c, "deleteRecord", "check")
    /\ LET r == req[c] IN
       Resume(c, IF Cardinality(SelectRecordById(r.id)) = 0
                 THEN Suspended(Answered(r, 404, "Medical record not found", <<>>, NoRow),
                                NoRow)
                 ELSE Suspended(r, NoRow))
    /\ UNCHANGED <<pets, records, petSeq, recSeq, env>>

\* deleteRecord: the handler awaits its existence check.
DeleteRecordCall(c) ==
    /\ MaySend(c)
    /\ \E id \in RecordIds : Call(c, Called(Request("deleteRecord", id, NoBody)))
    /\ UNCHANGED <<pets, records, petSeq, recSeq, env>>

\* SELECT * FROM medical_records WHERE id = $1
DeleteRecordCheck(c) ==
    /\ At(c, "deleteRecord", "check")
    /\ LET r == req[c] IN
       Resume(c, IF Cardinality(SelectRecordById(r.id)) = 0
                 THEN Answered(r, 404, "Medical record not found", <<>>, NoRow)
                 ELSE Suspended(r, NoRow))
    /\ UNCHANGED <<pets, records, petSeq, recSeq, env>>

\* getRecordById: the handler awaits its query.
GetRecordByIdCall(c) ==
    /\ MaySend(c)
    /\ \E id \in RecordIds : Call(c, Called(Request("getRecordById", id, NoBody)))
    /\ UNCHANGED <<pets, records, petSeq, recSeq, env>>

\* SELECT * FROM medical_records WHERE id = $1; res.json(result.rows[0])
GetRecordById(c) ==
    /\ At(c, "getRecordById", "check")
    /\ LET r == req[c]
           result == SelectRecordById(r.id)
       IN  Resume(c, IF Cardinality(result) = 0
                     THEN Answered(r, 404, "Medical record not found", <<>>, NoRow)
                     ELSE Answered(r, 200, "", <<>>, TheRow(result)))
    /\ UNCHANGED <<pets, records, petSeq, recSeq, env>>

\* Mutant: a DELETE that matches no row is treated as a failure.
DeleteRecordDeleteStrict(c) ==
    /\ At(c, "deleteRecord", "write")
    /\ records' = {r \in records : r.id # req[c].id}
    /\ Resume(c, IF \E r \in records : r.id = req[c].id
                 THEN Answered(req[c], 200, "", <<>>,
                               [message |-> "Medical record deleted successfully"])
                 ELSE Failed(req[c]))
    /\ UNCHANGED <<pets, petSeq, recSeq, env>>

\* DELETE FROM medical_records WHERE id = $1
DeleteRecordDelete(c) ==
    /\ At(c, "deleteRecord", "write")
    /\ records' = {r \in records : r.id # req[c].id}
    /\ Resume(c, Answered(req[c], 200, "", <<>>,
                          [message |-> "Medical record deleted successfully"]))
    /\ UNCHANGED <<pets, petSeq, recSeq, env>>

(***************************************************************************)
(* dashboardController                                                     *)
(***************************************************************************)
\* The results of the queries of getStats that have run.
NoStats == [totalPets |-> 0, petsByType |-> <<>>, totalRecords |-> 0,
            recordsByType |-> <<>>, upcomingVaccines |-> <<>>, recentRecords |-> <<>>]

\* The handler of request r is suspended at the await of query pc of getStats.
StatsSuspended(r, pc, row) == [r EXCEPT !.pc = pc, !.row = row]

\* getStats: the handler awaits its first query.
GetStatsCall(c) ==
    /\ MaySend(c)
    /\ Call(c, StatsSuspended(Request("getStats", 0, NoBody), "totalPets", NoStats))
    /\ UNCHANGED <<pets, records, petSeq, recSeq, env>>

\* SELECT COUNT(*) as count FROM pets
GetStatsTotalPets(c) ==
    /\ At(c, "getStats", "totalPets")
    /\ Resume(c, StatsSuspended(req[c], "petsByType",
                 [req[c].row EXCEPT !.totalPets = CountRows(pets)]))
    /\ UNCHANGED <<pets, records, petSeq, recSeq, env>>

\* SELECT animal_type, COUNT(*) as count FROM pets GROUP BY animal_type
GetStatsPetsByType(c) ==
    /\ At(c, "getStats", "petsByType")
    /\ Resume(c, StatsSuspended(req[c], "totalRecords",
                 [req[c].row EXCEPT !.petsByType = CountBy(pets, "animal_type")]))
    /\ UNCHANGED <<pets, records, petSeq, recSeq, env>>

\* SELECT COUNT(*) as count FROM medical_records
GetStatsTotalRecords(c) ==
    /\ At(c, "getStats", "totalRecords")
    /\ Resume(c, StatsSuspended(req[c], "recordsByType",
                 [req[c].row EXCEPT !.totalRecords = CountRows(records)]))
    /\ UNCHANGED <<pets, records, petSeq, recSeq, env>>

\* SELECT record_type, COUNT(*) as count FROM medical_records GROUP BY record_type
GetStatsRecordsByType(c) ==
    /\ At(c, "getStats", "recordsByType")
    /\ Resume(c, StatsSuspended(req[c], "upcomingVaccines",
                 [req[c].row EXCEPT !.recordsByType = CountBy(records, "record_type")]))
    /\ UNCHANGED <<pets, records, petSeq, recSeq, env>>

\* Upcoming vaccines (vaccines from last 30 days to next 30 days)
GetStatsUpcomingVaccines(c) ==
    /\ At(c, "getStats", "upcomingVaccines")
    /\ \E rows \in SelectUpcomingVaccines(records, pets, CurrentDate) :
         Resume(c, StatsSuspended(req[c], "recentRecords",
                   [req[c].row EXCEPT !.upcomingVaccines = rows]))
    /\ UNCHANGED <<pets, records, petSeq, recSeq, env>>

\* Recent records (last 10); res.json({totalPets, ..., recentRecords})
GetStatsRecentRecords(c) ==
    /\ At(c, "getStats", "recentRecords")
    /\ Resume(c, Answered(req[c], 200, "", <<>>,
                 [req[c].row EXCEPT !.recentRecords = SelectRecentRecords(records, pets)]))
    /\ UNCHANGED <<pets, records, petSeq, recSeq, env>>

(***************************************************************************)
(* Routing of /api/records                                                 *)
(***************************************************************************)
\* routes/records.ts: the routes of the router, in the order of registration.
RecordRouter ==
    { [method |-> "GET",    path |-> "/pet/:petId", handler |-> "getRecordsByPetId"],
      [method |-> "GET",    path |-> "/:id",        handler |-> "getRecordById"],
      [method |-> "POST",   path |-> "/pet/:petId", handler |-> "createRecord"],
      [method |-> "PUT",    path |-> "/:id",        handler |-> "updateRecord"],
      [method |-> "DELETE", path |-> "/:id",        handler |-> "deleteRecord"] }

\* The handler the router runs for a request, "none" when no route matches.
Dispatch(router, method, path) ==
    LET matching == {r \in router : r.method = method /\ r.path = path}
    IN  IF matching = {} THEN "none" ELSE (CHOOSE r \in matching : TRUE).handler

\* services/recordService.ts: the requests the client sends.
RecordServiceCalls ==
    { [name |-> "recordService.getByPetId", method |-> "GET",    path |-> "/pet/:petId"],
      [name |-> "recordService.getById",    method |-> "GET",    path |-> "/:id"],
      [name |-> "recordService.create",     method |-> "POST",   path |-> "/pet/:petId"],
      [name |-> "recordService.update",     method |-> "PATCH",  path |-> "/:id"],
      [name |-> "recordService.delete",     method |-> "DELETE", path |-> "/:id"] }

\* A request of the client that no route of the router matches falls through
\* app.use('/api/records', recordRoutes) to express's final handler: 404.
RecordServiceUnrouted(c) ==
    /\ MaySend(c)
    /\ \E call \in RecordServiceCalls, id \in RecordIds, b \in CoreUpdatePayloads :
         /\ Dispatch(RecordRouter, call.method, call.path) = "none"
         /\ Deliver(c, Answered(Request(call.name, id, b), 404, "Cannot " \o call.method,
                                <<>>, NoRow))
    /\ UNCHANGED <<pets, records, petSeq, recSeq, env>>

(***************************************************************************)
(* The record form of the client in edit mode.  The source holds two       *)
(* RecordFormModal components, the first with memoised callbacks.          *)
(***************************************************************************)
\* validateForm of the first component: the form with a null severity made
\* undefined passes the client's createRecordSchema, which is the server's.
validateForm(formData) ==
    Success(createRecordSchema(
        [formData EXCEPT !.severity = IF @ = Null THEN Undefined ELSE @]))

\* validateForm of the second component: createRecordSchema.safeParse(formData)
validateFormPlain(formData) == Success(createRecordSchema(formData))

\* value || undefined
OrUndefined(v) == IF Falsy(v) THEN Undefined ELSE v

\* The first component: updateData without recordId; JSON leaves out the keys
\* that are undefined.
EditPayload(formData) ==
    RecordBody(formData.record_type, formData.name, OrUndefined(formData.date),
               OrUndefined(formData.reactions),
               IF formData.severity = Null THEN Undefined ELSE formData.severity)

\* The second component: updateMutation.mutate(formData)
EditPayloadPlain(formData) == formData

\* The component the page shows, with its validation and its payload.
RecordFormModals ==
    {"RecordFormModal (memoised)", "RecordFormModal (plain)"}

\* handleSubmit in edit mode for a record of the list: nothing is sent unless
\* validateForm() holds; updateMutation.mutate sends recordService.update,
\* PATCH /api/records/:id, which no route of the router matches.
RecordFormSubmit(c) ==
    /\ MaySend(c)
    /\ \E record \in records, formData \in RecordForms, modal \in RecordFormModals :
         LET memoised == modal = "RecordFormModal (memoised)"
             valid    == IF memoised THEN validateForm(formData)
                         ELSE validateFormPlain(formData)
             data     == IF memoised THEN EditPayload(formData)
                         ELSE EditPayloadPlain(formData)
         IN  /\ valid
             /\ Dispatch(RecordRouter, "PATCH", "/:id") = "none"
             /\ Deliver(c, [Answered(Request("recordService.update", record.id, data),
                                     404, "Cannot PATCH", <<>>, NoRow)
                               EXCEPT !.form = formData])
    /\ UNCHANGED <<pets, records, petSeq, recSeq, env>>

(***************************************************************************)
(* Start-up (server.ts) and the schema (db/database.ts)                    *)
(***************************************************************************)
Tables == {"pets", "medical_records"}

\* The server process before its start-up function has run.  sys.server names
\* the last step of the start-up that has ended.
Starting == [server |-> "starting", tables |-> {}, held |-> 0, exit |-> 0]

\* catch (err) { process.exit(1) }
Exit(s) == [s EXCEPT !.server = "exited", !.exit = 1]

\* The store and the requests are not touched by the start-up.
StartupFrame == UNCHANGED <<pets, records, petSeq, recSeq, req, sent, env>>

\* Mutant: the server listens as soon as the connection test has succeeded.
ConnectThenListen ==
    /\ sys.server = "starting"
    /\ \E ok \in BOOLEAN :
         sys' = IF ok THEN [sys EXCEPT !.server = "listening"] ELSE Exit(sys)
    /\ StartupFrame

\* connect(): const client = await pool.connect().  When it throws no client
\* was taken; connect() rethrows and the start-up exits.
Connect ==
    /\ sys.server = "starting"
    /\ \E ok \in BOOLEAN :
         sys' = IF ok
                THEN [sys EXCEPT !.server = "connected", !.held = Take(@)]
                ELSE Exit(sys)
    /\ StartupFrame

\* connect(): client.release(); return true
ReleaseClient ==
    /\ sys.server = "connected"
    /\ sys' = [sys EXCEPT !.server = "released", !.held = Release(@)]
    /\ StartupFrame

\* initializeSchema is called and awaits its first statement, for which
\* pool.query takes a client.
InitializeSchemaCall ==
    /\ sys.server = "released"
    /\ sys' = [sys EXCEPT !.server = "initializing", !.held = Take(@)]
    /\ StartupFrame

\* initializeSchema: CREATE TABLE IF NOT EXISTS pets ends, its client is given
\* back; then the next statement is awaited.
CreatePetsTable ==
    /\ sys.server = "initializing"
    /\ \E ok \in BOOLEAN :
         sys' = IF ok
                THEN [sys EXCEPT !.server = "pets created",
                                 !.tables = @ \cup {"pets"},
                                 !.held = Take(Release(@))]
                ELSE Exit([sys EXCEPT !.held = Release(@)])
    /\ StartupFrame

\* initializeSchema: CREATE TABLE IF NOT EXISTS medical_records ends, its
\* client is given back; then the next statement is awaited.
CreateRecordsTable ==
    /\ sys.server = "pets created"
    /\ \E ok \in BOOLEAN :
         sys' = IF ok
                THEN [sys EXCEPT !.server = "records created",
                                 !.tables = @ \cup {"medical_records"},
                                 !.held = Take(Release(@))]
                ELSE Exit([sys EXCEPT !.held = Release(@)])
    /\ StartupFrame

\* initializeSchema: CREATE INDEX IF NOT EXISTS ... ends, its client is given
\* back; then app.listen(PORT)
CreateIndexesThenListen ==
    /\ sys.server = "records created"
    /\ \E ok \in BOOLEAN :
         sys' = IF ok
                THEN [sys EXCEPT !.server = "listening", !.held = Release(@)]
                ELSE Exit([sys EXCEPT !.held = Release(@)])
    /\ StartupFrame

(***************************************************************************)
(* Specifications.                                                         *)
(***************************************************************************)
\* A server process that starts on a new database.
InitStore ==
    /\ pets = {}
    /\ records = {}
    /\ petSeq = 0
    /\ recSeq = 0
    /\ req = [c \in Clients |-> Idle]
    /\ sent = 0
    /\ sys = Starting

Init == InitStore /\ env = ConcurrentEnv

InitSeq == InitStore /\ env = SequentialEnv

InitScenario == InitStore /\ env = ScenarioEnv

\* A server process that starts on the database an earlier process has left:
\* the tables exist (CREATE TABLE IF NOT EXISTS) and hold a pet and a record
\* of it, created with the first payloads.
InitRace ==
    /\ pets = {NewPet(1, PetBody(Str(Rex), Str(Dog), Str(Alice), Str(Date20200101)))}
    /\ records = {NewRecord(1, 1, RecordBody(Str(Vaccine), Str(Rabies),
                                             Str(Date20240301), Undefined, Undefined))}
    /\ petSeq = 1
    /\ recSeq = 1
    /\ req = [c \in Clients |-> Idle]
    /\ sent = 0
    /\ sys = [Starting EXCEPT !.tables = Tables]
    /\ env = RaceEnv

\* A server process that starts on a database in which every pet id is that
\* of a stored pet and MaxRecords + 1 vaccine records are stored, each owned
\* by any of the pets: a pet owns none, some or all of them.
InitCascade ==
    /\ pets = {NewPet(i, IF i = 1
                         THEN PetBody(Str(Rex), Str(Dog), Str(Alice), Str(Date20200101))
                         ELSE PetBody(Str(Tom), Str(Cat), Str(Alice), Str(Date20210615))) :
                 i \in PetIds}
    /\ \E owner \in [1..(MaxRecords + 1) -> PetIds] :
          records = {NewRecord(i, owner[i],
                               RecordBody(Str(Vaccine), Str(Rabies), Str(Date20240301),
                                          Undefined, Undefined)) :
                       i \in 1..(MaxRecords + 1)}
    /\ petSeq = MaxPets
    /\ recSeq = MaxRecords + 1
    /\ req = [c \in Clients |-> Idle]
    /\ sent = 0
    /\ sys = [Starting EXCEPT !.tables = Tables]
    /\ env = RaceEnv

Startup ==
    Connect \/ ReleaseClient \/ InitializeSchemaCall \/ CreatePetsTable \/ CreateRecordsTable \/ CreateIndexesThenListen

\* The handlers of /api/pets and /api/records that insert, update or delete
\* rows.
WriteHandlers ==
    \E c \in Clients :
        \/ CreatePetCall(c) \/ CreatePetCheck(c) \/ CreatePetInsert(c)
        \/ UpdatePetCall(c) \/ UpdatePetCheck(c) \/ UpdatePetWrite(c)
        \/ DeletePetCall(c) \/ DeletePetCheck(c) \/ DeletePetDelete(c)
        \/ CreateRecordCall(c) \/ CreateRecordCheck(c) \/ CreateRecordInsert(c)
        \/ UpdateRecordCall(c) \/ UpdateRecordCheck(c) \/ UpdateRecordWrite(c)
        \/ DeleteRecordCall(c) \/ DeleteRecordCheck(c) \/ DeleteRecordDelete(c)
        \/ Finish(c)

\* The handlers of /api/pets and /api/records that only read, and the
\* client's record calls that reach no handler.
ReadHandlers ==
    \E c \in Clients :
        \/ GetAllPetsCall(c) \/ GetAllPets(c)
        \/ GetPetByIdCall(c) \/ GetPetById(c)
        \/ GetRecordsCall(c) \/ GetRecordsCheck(c) \/ GetRecordsSelect(c)
        \/ GetRecordByIdCall(c) \/ GetRecordById(c)
        \/ RecordServiceUnrouted(c)
        \/ RecordFormSubmit(c)

PetRecordHandlers == WriteHandlers \/ ReadHandlers

\* The handler of /api/dashboard, which reads the two tables.
DashboardHandlers ==
    \E c \in Clients :
        \/ GetStatsCall(c)
        \/ GetStatsTotalPets(c) \/ GetStatsPetsByType(c) \/ GetStatsTotalRecords(c)
        \/ GetStatsRecordsByType(c) \/ GetStatsUpcomingVaccines(c)
        \/ GetStatsRecentRecords(c)

Handlers == PetRecordHandlers \/ DashboardHandlers

Next == Startup \/ Handlers

\* The server under the requests that change rows.
NextWrites == Startup \/ WriteHandlers

\* Requests of NumClients clients that insert, update and delete pets and
\* records, interleaved at every await.  The reading handlers change no row;
\* SpecSeq runs them and SpecRace interleaves the dashboard with the writes.
Spec == Init /\ [][NextWrites]_vars

\* Requests processed one after another.
SpecSeq == InitSeq /\ [][Next]_vars

\* Longer runs of requests with plain payloads, processed one after another.
SpecScenario == InitScenario /\ [][Next]_vars

\* The pcs at which a handler awaits its first statement.
FirstStatements == {"check", "totalPets"}

\* The first statement of a handler throws (the store is not reachable):
\* query() rethrows and the catch of the handler calls next(err).
FirstQueryFails(c) ==
    /\ req[c].pc \in FirstStatements
    /\ Resume(c, Failed(req[c]))
    /\ UNCHANGED <<pets, records, petSeq, recSeq, env>>

\* A later statement of a suspended handler throws.
LaterQueryFails(c) ==
    /\ req[c].pc \notin {"idle", "done"} \cup FirstStatements
    /\ Resume(c, Failed(req[c]))
    /\ UNCHANGED <<pets, records, petSeq, recSeq, env>>

NextFaults == Next \/ \E c \in Clients : FirstQueryFails(c) \/ LaterQueryFails(c)

\* Requests processed one after another by a server whose statements may fail.
SpecFaults == InitSeq /\ [][NextFaults]_vars

\* The server under the requests that change rows and those to
\* /api/dashboard.
NextRace == Startup \/ WriteHandlers \/ DashboardHandlers

\* Requests of NumClients clients on a database that holds rows already.
SpecRace == InitRace /\ [][NextRace]_vars

\* The handlers that delete rows.
NextCascade ==
    \/ Startup
    \/ \E c \in Clients :
          \/ DeletePetCall(c) \/ DeletePetCheck(c) \/ DeletePetDelete(c)
          \/ DeleteRecordCall(c) \/ DeleteRecordCheck(c) \/ DeleteRecordDelete(c)
          \/ Finish(c)

\* Deletions by NumClients clients on a database whose pets own several
\* records.
SpecCascade == InitCascade /\ [][NextCascade]_vars

(***************************************************************************)
(* Properties.                                                             *)
(***************************************************************************)
Done(c, op) == req[c].op = op /\ req[c].pc = "done"

\* Client c's handler executes its last statement in this step.
Writes(c, op) == req[c].op = op /\ req[c].pc = "write" /\ req'[c].pc = "done"

SamePetKey(a, b) == a.name = b.name /\ a.owner_name = b.owner_name

\* C1: under every interleaving of the handlers' queries, the pet_id of every
\* stored medical record is the id of a stored pet.
C1_NoOrphanRecord ==
    \A r \in records : \E p \in pets : p.id = r.pet_id

\* C1 witness: a createRecord passed its existence check, its pet was deleted
\* before its INSERT, and the INSERT was refused.
C1_Witness ==
    \E c \in Clients :
        /\ Done(c, "createRecord")
        /\ req[c].status = 500
        /\ req[c].id <= petSeq
        /\ \A p \in pets : p.id # req[c].id

\* C2: the step in which deletePet answers 200 leaves no medical record of
\* that pet, and leaves the records of all other pets as they were.
C2_DeletePetCascades ==
    [][\A c \in Clients :
          (Writes(c, "deletePet") /\ req'[c].status = 200) =>
              /\ \A r \in records' : r.pet_id # req[c].id
              /\ {r \in records' : r.pet_id # req[c].id}
                    = {r \in records : r.pet_id # req[c].id}]_vars

\* C2 witness: the only request so far was a deletePet, answered 200; of the
\* MaxRecords + 1 records that were stored, those of the pet (more than one)
\* are gone and a record of another pet is stored as it was.
C2_Witness ==
    \E c \in Clients :
        /\ Done(c, "deletePet") /\ req[c].status = 200
        /\ sent = 1
        /\ \A d \in Clients : d # c => req[d].pc = "idle"
        /\ Cardinality(records) = 1
        /\ \E r \in records :
              /\ r.pet_id # req[c].id
              /\ r = NewRecord(r.id, r.pet_id,
                               RecordBody(Str(Vaccine), Str(Rabies), Str(Date20240301),
                                          Undefined, Undefined))

\* The handler of client c for op answers before its first statement in this
\* step, or its first statement ends in this step.
Arrives(c, op) ==
    /\ req'[c].op = op
    /\ \/ req[c].pc = "idle" /\ req'[c].pc = "done"
       \/ req[c].pc \in FirstStatements /\ req'[c] # req[c]

\* C3 as stated: with requests processed one after another, a createPet whose
\* (name, owner_name) is that of a stored pet is answered 400 'Pet already
\* exists' and stores nothing, whatever its animal_type and date_of_birth are.
C3_DuplicatePetRejected ==
    [][\A c \in Clients :
          (/\ Arrives(c, "createPet")
           /\ \E p \in pets : SamePetKey(p, req'[c].body)) =>
              /\ req'[c].pc = "done"
              /\ req'[c].status = 400
              /\ req'[c].error = "Pet already exists"
              /\ pets' = pets]_vars

\* C3 amended: with requests processed one after another, a createPet whose
\* (name, owner_name) is that of a stored pet is answered 400 and stores
\* nothing, whatever its animal_type and date_of_birth are: with 'Validation
\* failed' when the body does not pass createPetSchema, with 'Pet already
\* exists' when it does; so that no createPet reaches its INSERT while a pet
\* of the same (name, owner_name) is stored.
C3_ValidDuplicatePetRejected ==
    /\ [][\A c \in Clients :
            (/\ Arrives(c, "createPet")
             /\ \E p \in pets : SamePetKey(p, req'[c].body)) =>
                /\ req'[c].pc = "done"
                /\ req'[c].status = 400
                /\ req'[c].error = IF Success(createPetSchema(req'[c].body))
                                   THEN "Pet already exists"
                                   ELSE "Validation failed"
                /\ pets' = pets]_vars
    /\ [](\A c \in Clients :
            (req[c].op = "createPet" /\ req[c].pc = "write") =>
                ~\E p \in pets : SamePetKey(p, req[c].body))

\* C3 witness: a createPet was answered 400 'Pet already exists' although its
\* animal_type and date_of_birth differ from those of the stored pet.
C3_Witness ==
    \E c \in Clients :
        /\ Done(c, "createPet")
        /\ req[c].status = 400
        /\ req[c].error = "Pet already exists"
        /\ \E p \in pets :
              /\ SamePetKey(p, req[c].body)
              /\ p.animal_type # req[c].body.animal_type
              /\ p.date_of_birth # req[c].body.date_of_birth

\* C4: the INSERT of a createPet that has passed its uniqueness query is not
\* conditional on the table any more: it stores the row and answers 201
\* whatever pets are stored by then.
C4_InsertAfterCheckUnconditional ==
    [][\A c \in Clients :
          Writes(c, "createPet") =>
              /\ req'[c].status = 201
              /\ \E p \in pets' \ pets : SamePetKey(p, req[c].body)]_vars

\* C4 witness: two concurrent createPet requests with the same (name, owner_name)
\* were both answered 201 and both rows are stored.
C4_Witness ==
    \E c, d \in Clients :
        /\ c # d
        /\ Done(c, "createPet") /\ req[c].status = 201
        /\ Done(d, "createPet") /\ req[d].status = 201
        /\ SamePetKey(req[c].body, req[d].body)
        /\ \E p, q \in pets : p.id # q.id /\ SamePetKey(p, q)

PetStored(id) == \E p \in pets : p.id = id

HasIssue(details, field, msg) ==
    \E i \in DOMAIN details : details[i] = [path |-> <<field>>, message |-> msg]

\* C5: a createRecord whose petId names no stored pet is answered 404
\* 'Pet not found', also when its body fails validation (requests processed
\* one after another).
C5_MissingPetBeforeValidation ==
    \A c \in Clients :
        (Done(c, "createRecord") /\ ~PetStored(req[c].id)) =>
            /\ req[c].status = 404
            /\ req[c].error = "Pet not found"

\* C6: an updateRecord of a stored record whose body has the empty string as
\* date (and is otherwise valid) is answered 200 and leaves the stored date
\* NULL (requests processed one after another).
C6_EmptyDateStoredAsNull ==
    \A c \in Clients :
        (/\ Done(c, "updateRecord")
         /\ req[c].body.date = Str(<<>>)
         /\ Success(updateRecordSchema([req[c].body EXCEPT !.date = Undefined]))
         /\ \E r \in records : r.id = req[c].id) =>
            /\ req[c].status = 200
            /\ \A r \in records : r.id = req[c].id => r.date = Null

RecordFields == {"record_type", "name", "date", "reactions", "severity"}

\* C7: with requests processed one after another, the UPDATE of an updateRecord
\* that is answered 200 leaves every field the body does not supply as it was
\* stored.
C7_UpdateRecordMergesByPresence ==
    [][\A c \in Clients :
          (Writes(c, "updateRecord") /\ req'[c].status = 200) =>
              \A old \in records :
                  old.id = req[c].id =>
                      \E new \in records' :
                          /\ new.id = old.id
                          /\ \A f \in RecordFields :
                                req[c].body[f] = Undefined => new[f] = old[f]]_vars

\* C7 witness: an update whose body has only reactions was answered 200; the
\* stored row has the new reactions and still has its type, name and date.
C7_Witness ==
    \E c \in Clients :
        /\ Done(c, "updateRecord")
        /\ req[c].status = 200
        /\ req[c].body = RecordBody(Undefined, Undefined, Undefined, Str(Itchy), Undefined)
        /\ \E r \in records :
              /\ r.id = req[c].id
              /\ r.reactions = Str(Itchy)
              /\ r.record_type = Str(Vaccine)
              /\ r.name = Str(Rabies)
              /\ r.date = Str(Date20240301)

\* The fields of a createRecord body are of the types the schema asks for.
WellTypedName(b) == IsString(b.name) /\ Len(b.name.s) \in 1..MaxNameLen
WellTypedReactions(b) == b.reactions = Undefined \/ IsString(b.reactions)

\* C8: a createRecord with record_type vaccine and a date that is absent or
\* falsy (the other fields being well-formed) is answered 400, and the details
\* have an issue with path ['date'] and message 'Vaccine records require a date'.
C8_VaccineWithoutDateRejected ==
    \A c \in Clients :
        (/\ Done(c, "createRecord")
         /\ req[c].body.record_type = Str(Vaccine)
         /\ Falsy(req[c].body.date)
         /\ WellTypedName(req[c].body)
         /\ WellTypedReactions(req[c].body)
         /\ req[c].body.severity \in {Undefined, Str(Mild), Str(Severe)}) =>
            /\ req[c].status = 400
            /\ HasIssue(req[c].details, "date", "Vaccine records require a date")

\* C9: a createRecord with record_type allergy and a severity that is absent or
\* falsy (the other fields being well-formed) is answered 400, and the details
\* have an issue with path ['severity'] and message 'Allergy records require
\* severity (mild or severe)'.
C9_AllergyWithoutSeverityRejected ==
    \A c \in Clients :
        (/\ Done(c, "createRecord")
         /\ req[c].body.record_type = Str(Allergy)
         /\ Falsy(req[c].body.severity)
         /\ WellTypedName(req[c].body)
         /\ WellTypedReactions(req[c].body)
         /\ req[c].body.date \in {Undefined, Str(Date20240301)}) =>
            /\ req[c].status = 400
            /\ HasIssue(req[c].details, "severity",
                        "Allergy records require severity (mild or severe)")

\* C10: with requests processed one after another, getRecordsByPetId answers
\* 404 'Pet not found' for a pet id that is not stored, and 200 with the empty
\* array for a stored pet without records.
C10_ListRecordsOfMissingPet ==
    \A c \in Clients :
        Done(c, "getRecordsByPetId") =>
            /\ ~PetStored(req[c].id) =>
                  req[c].status = 404 /\ req[c].error = "Pet not found"
            /\ (PetStored(req[c].id) /\ \A r \in records : r.pet_id # req[c].id) =>
                  req[c].status = 200 /\ req[c].result = <<>>

\* C10 witness: the records of a pet that was deleted were asked for and the
\* answer is 404.
C10_Witness ==
    \E c \in Clients :
        /\ Done(c, "getRecordsByPetId")
        /\ req[c].status = 404
        /\ req[c].id <= petSeq
        /\ ~PetStored(req[c].id)

PetFields == {"name", "animal_type", "owner_name", "date_of_birth"}

\* C11: with requests processed one after another, the INSERT of a createPet
\* with a valid body whose (name, owner_name) is not stored answers 201 with an
\* id no pet has had, and stores under that id a pet with the four fields of
\* the body; and a getPetById of a stored id answers 200 with the stored pet.
C11_CreateThenGetReturnsPayload ==
    [][\A c \in Clients :
          /\ (/\ Writes(c, "createPet")
              /\ Success(createPetSchema(req[c].body))
              /\ ~\E p \in pets : SamePetKey(p, req[c].body)) =>
                 /\ req'[c].status = 201
                 /\ req'[c].result.id > petSeq
                 /\ \E p \in pets' :
                       /\ p.id = req'[c].result.id
                       /\ \A f \in PetFields : p[f] = req[c].body[f]
          /\ (Arrives(c, "getPetById") /\ PetStored(req'[c].id)) =>
                 /\ req'[c].status = 200
                 /\ req'[c].result \in pets
                 /\ req'[c].result.id = req'[c].id]_vars

\* C12: the UPDATE of an updatePet whose body passed validation, on a pet that
\* is stored, answers 200 with the pet, and every field the body does not
\* supply keeps its stored value (requests processed one after another).
C12_UpdatePetKeepsUnsupplied ==
    [][\A c \in Clients :
          (Writes(c, "updatePet") /\ PetStored(req[c].id)) =>
              \A old \in pets :
                  old.id = req[c].id =>
                      /\ req'[c].status = 200
                      /\ \E new \in pets' :
                            /\ new.id = old.id
                            /\ req'[c].result = new
                            /\ \A f \in PetFields :
                                  req[c].body[f] = Undefined => new[f] = old[f]]_vars

ValidatingHandlers == {"createPet", "updatePet", "createRecord", "updateRecord"}

\* C13: a createPet, updatePet, createRecord or updateRecord that is answered
\* 400 'Validation failed' is answered before its handler has issued any write
\* statement, and the step that answers it leaves the pets and medical_records
\* tables and their sequences as they were.
C13_ValidationFailureWritesNothing ==
    [][\A c \in Clients :
          (/\ req[c].pc # "done"
           /\ req'[c].pc = "done"
           /\ req'[c].op \in ValidatingHandlers
           /\ req'[c].error = "Validation failed") =>
              /\ req'[c].status = 400
              /\ req[c].pc \in {"idle"} \cup FirstStatements
              /\ pets' = pets
              /\ records' = records
              /\ petSeq' = petSeq
              /\ recSeq' = recSeq]_vars

\* C13 witness: an updateRecord of a stored record was answered 400
\* 'Validation failed' and the stored record has none of the body's values.
C13_Witness ==
    \E c \in Clients :
        /\ Done(c, "updateRecord")
        /\ req[c].status = 400
        /\ req[c].error = "Validation failed"
        /\ req[c].body.reactions = Str(Itchy)
        /\ \E r \in records : r.id = req[c].id /\ r.reactions = Null

RecordStored(id) == \E r \in records : r.id = id

\* C14: with requests processed one after another, an updatePet or deletePet
\* of an id that is not stored is answered 404 'Pet not found', an updateRecord
\* or deleteRecord of an id that is not stored is answered 404 'Medical record
\* not found', whatever the body is, and both tables stay as they were.
C14_MissingTargetAnswered404 ==
    [][\A c \in Clients :
          /\ (/\ Arrives(c, "updatePet") \/ Arrives(c, "deletePet")
              /\ ~PetStored(req'[c].id)) =>
                 /\ req'[c].pc = "done"
                 /\ req'[c].status = 404
                 /\ req'[c].error = "Pet not found"
                 /\ pets' = pets /\ records' = records
          /\ (/\ Arrives(c, "updateRecord") \/ Arrives(c, "deleteRecord")
              /\ ~RecordStored(req'[c].id)) =>
                 /\ req'[c].pc = "done"
                 /\ req'[c].status = 404
                 /\ req'[c].error = "Medical record not found"
                 /\ pets' = pets /\ records' = records]_vars

\* C14 witness: an updatePet with a body that fails validation, for a pet that
\* was deleted, was answered 404.
C14_Witness ==
    \E c \in Clients :
        /\ Done(c, "updatePet")
        /\ req[c].status = 404
        /\ req[c].id <= petSeq
        /\ ~PetStored(req[c].id)
        /\ ~Success(updatePetSchema(req[c].body))

\* C15: a createRecord whose body violates a field rule and a cross-field rule
\* is answered 400 with details that hold the issue of the cross-field rule as
\* well as those of the field rules.
C15_AllViolationsReported ==
    \A c \in Clients :
        (Done(c, "createRecord") /\ ~Success(createRecordObject(req[c].body))) =>
            /\ req[c].status = 400
            /\ \A i \in DOMAIN createRecordObject(req[c].body).issues :
                  \E j \in DOMAIN req[c].details :
                      req[c].details[j] = createRecordObject(req[c].body).issues[i]
            /\ (req[c].body.record_type = Str(Vaccine) /\ Falsy(req[c].body.date)) =>
                  HasIssue(req[c].details, "date", "Vaccine records require a date")
            /\ (req[c].body.record_type = Str(Allergy) /\ Falsy(req[c].body.severity)) =>
                  HasIssue(req[c].details, "severity",
                           "Allergy records require severity (mild or severe)")

\* Record a is listed before record b when the order is date descending with
\* the records without a date last, and creation time descending among equals.
ListedBeforeNullsLast(a, b) ==
    \/ a.date # Null /\ b.date = Null
    \/ a.date # Null /\ b.date # Null /\ DateKey(a) > DateKey(b)
    \/ /\ \/ a.date = Null /\ b.date = Null
          \/ a.date # Null /\ b.date # Null /\ DateKey(a) = DateKey(b)
       /\ a.created_at > b.created_at

\* C16: the array a getRecordsByPetId answers 200 with holds exactly the
\* records of the pet, ordered by date descending with the records whose date
\* is null after all dated ones, ties broken by creation time descending
\* (requests processed one after another).
C16_RecordsListedNullsLast ==
    \A c \in Clients :
        (Done(c, "getRecordsByPetId") /\ req[c].status = 200) =>
            /\ {req[c].result[i] : i \in DOMAIN req[c].result}
                  = {r \in records : r.pet_id = req[c].id}
            /\ Len(req[c].result) = Cardinality({r \in records : r.pet_id = req[c].id})
            /\ \A i, j \in DOMAIN req[c].result :
                  i < j => ListedBeforeNullsLast(req[c].result[i], req[c].result[j])

\* C17: a request the client's recordService.update sends for a stored record
\* with a valid body is answered 200 with the record.
C17_ClientUpdateReachesHandler ==
    \A c \in Clients :
        (/\ Done(c, "recordService.update")
         /\ RecordStored(req[c].id)
         /\ Success(updateRecordSchema(req[c].body))) =>
            /\ req[c].status = 200
            /\ req[c].result \in records

\* C18: every request that has been answered has status 200, 201, 400 or 404.
C18_NoGeneric500 ==
    \A c \in Clients :
        req[c].pc = "done" => req[c].status \in {200, 201, 400, 404}

\* C19: no step changes the pet_id or the created_at of a record that stays
\* stored, and the UPDATE of an updateRecord leaves the ids of the stored
\* records as they were, whatever the body has (a pet_id key included).
C19_RecordIdentityImmutable ==
    [][/\ \A r \in records : \A s \in records' :
             s.id = r.id => s.pet_id = r.pet_id /\ s.created_at = r.created_at
       /\ \A c \in Clients :
             Writes(c, "updateRecord") =>
                 {r.id : r \in records'} = {r.id : r \in records}]_vars

\* C19 witness: an updateRecord whose body has a pet_id other than the pet of
\* the record was answered 200, and the record still has its pet.
C19_Witness ==
    \E c \in Clients :
        /\ Done(c, "updateRecord")
        /\ req[c].status = 200
        /\ "pet_id" \in DOMAIN req[c].body
        /\ \E r \in records :
              /\ r.id = req[c].id
              /\ r.reactions = req[c].body.reactions
              /\ r.pet_id # req[c].body.pet_id.n

OptionalRecordFields == {"date", "reactions", "severity"}

\* The body with its empty optional fields left out.
WithoutEmptyFields(b) ==
    [f \in DOMAIN b |->
        IF f \in OptionalRecordFields /\ b[f] = Str(<<>>) THEN Undefined ELSE b[f]]

\* C20: a createRecord for a stored pet whose body has the empty string in an
\* optional field, and is valid when those fields are left out, is answered
\* 201 and the stored record has null in those fields (requests processed one
\* after another).
C20_EmptyOptionalFieldsStoredAsNull ==
    \A c \in Clients :
        (/\ Done(c, "createRecord")
         /\ PetStored(req[c].id)
         /\ \E f \in OptionalRecordFields : req[c].body[f] = Str(<<>>)
         /\ Success(createRecordSchema(WithoutEmptyFields(req[c].body)))) =>
            /\ req[c].status = 201
            /\ \E r \in records :
                  /\ r.id = req[c].result.id
                  /\ \A f \in OptionalRecordFields :
                        req[c].body[f] = Str(<<>>) => r[f] = Null

\* C21: every stored record of type vaccine has a date, and every stored
\* record of type allergy has a severity.
C21_CrossFieldRulesOfStoredRecords ==
    \A r \in records :
        /\ r.record_type = Str(Vaccine) => r.date # Null
        /\ r.record_type = Str(Allergy) => r.severity # Null

\* Client c's handler takes a step of getStats.
StatsStep(c) == req'[c] # req[c] /\ req'[c].op = "getStats"

\* The rows q are joined rows of stored records and their stored pets.
JoinedRows(q) ==
    \A i \in DOMAIN q :
        /\ q[i].record \in records
        /\ \E p \in pets : /\ p.id = q[i].record.pet_id
                           /\ p.name = q[i].pet_name
                           /\ p.animal_type = q[i].animal_type

\* The vaccine records of stored pets whose date is within 30 days of today.
DueVaccines ==
    { r \in records :
        /\ r.record_type = Str(Vaccine)
        /\ \E p \in pets : p.id = r.pet_id
        /\ r.date # Null
        /\ DayNumber(CurrentDate) - 30 <= DayNumber(r.date.s)
        /\ DayNumber(r.date.s) <= DayNumber(CurrentDate) + 30 }

\* Today, as a day number.
Today == DayNumber(CurrentDate)

\* The rows q come the most imminent first: a vaccine that is due today or
\* later is listed after no vaccine whose date has passed, and the due ones
\* come in the order of their dates.
MostImminentFirst(q) ==
    \A i, j \in DOMAIN q :
        (i < j /\ DayNumber(q[j].record.date.s) >= Today) =>
            /\ Today <= DayNumber(q[i].record.date.s)
            /\ DayNumber(q[i].record.date.s) <= DayNumber(q[j].record.date.s)

\* C22: the query of getStats for upcomingVaccines yields only vaccine records
\* of stored pets dated from today - 30 to today + 30, each once, at most 10,
\* the most imminent first, leaving out a due vaccine only when 10 are listed;
\* its query for recentRecords yields at most 10 records of either type,
\* newest first, leaving out only older ones; and no step of getStats changes
\* the pets or the records.
C22_GetStatsLists ==
    [][\A c \in Clients :
          /\ StatsStep(c) => pets' = pets /\ records' = records
          /\ (req[c].pc = "upcomingVaccines" /\ req'[c].pc = "recentRecords") =>
                LET q == req'[c].row.upcomingVaccines
                IN  /\ Len(q) <= 10
                    /\ JoinedRows(q)
                    /\ \A i \in DOMAIN q : q[i].record \in DueVaccines
                    /\ \A i, j \in DOMAIN q : i < j => q[i].record # q[j].record
                    /\ MostImminentFirst(q)
                    /\ \A r \in DueVaccines :
                          (\E i \in DOMAIN q : q[i].record = r) \/ Len(q) = 10
          /\ (req[c].pc = "recentRecords" /\ req'[c].pc = "done") =>
                LET q == req'[c].result.recentRecords
                IN  /\ req'[c].status = 200
                    /\ Len(q) <= 10
                    /\ JoinedRows(q)
                    /\ \A i, j \in DOMAIN q :
                          i < j => q[i].record.created_at > q[j].record.created_at
                    /\ \A r \in records :
                          \/ \E i \in DOMAIN q : q[i].record = r
                          \/ /\ Len(q) = 10
                             /\ \A i \in DOMAIN q : q[i].record.created_at > r.created_at
    ]_vars

\* The statements that are awaited: one by each suspended handler, and one by
\* initializeSchema until its third statement has ended.
QueriesInFlight ==
    Cardinality({c \in Clients : req[c].pc \notin {"idle", "done"}})
    + (IF sys.server \in {"initializing", "pets created", "records created"}
       THEN 1 ELSE 0)

\* C23: the clients checked out of the pool are the one connect() has taken
\* and not yet released, and one for each statement in flight; so, whatever
\* the start-up and the handlers have done so far (answered with success, with
\* a validation failure, with not-found, or failed on a storage error), no
\* client is held when connect() has returned and no statement is in flight.
C23_NoConnectionHeld ==
    /\ sys.held = QueriesInFlight + (IF sys.server = "connected" THEN 1 ELSE 0)
    /\ (QueriesInFlight = 0 /\ sys.server # "connected") => sys.held = 0

\* A deletePet for a stored pet has failed on a storage error after another
\* request was answered: all clients are back in the pool.
C23_Witness ==
    /\ sys.held = 0
    /\ sys.server = "listening"
    /\ sent >= 2
    /\ \E c \in Clients :
          /\ Done(c, "deletePet")
          /\ req[c].status = 500 /\ req[c].nexts = 1
          /\ \E p \in pets : p.id = req[c].id

\* C24: the server listens only when both tables exist, which takes the
\* connection test and the three statements of initializeSchema in this
\* order; a failure of any of them ends the process with exit code 1, for
\* good; and no request is sent to, or handled by, a server that does not
\* listen on both tables.
C24_StartupOrdered ==
    /\ [](/\ sys.server = "listening" => sys.tables = {"pets", "medical_records"}
          /\ (sent > 0 \/ \E c \in Clients : req[c].pc # "idle") =>
                sys.server = "listening"
          /\ sys.server = "exited" <=> sys.exit = 1
          /\ sys.exit \in {0, 1})
    /\ [][/\ sys.server = "exited" => sys'.server = "exited"
          /\ sys.server = "listening" => sys'.server = "listening"
          /\ (sys.server # "listening" /\ sys'.server = "listening") =>
                sys.server = "records created"
          /\ (sys.server = "starting" /\ sys'.server # "starting") =>
                sys'.server \in {"connected", "exited"}
          /\ sys.tables \subseteq sys'.tables
          /\ (sys.server # "listening" \/ sys'.server # "listening") =>
                /\ req' = req /\ sent' = sent
                /\ pets' = pets /\ records' = records
       ]_vars

\* The process has exited with code 1 after the pets table was created and
\* before the medical_records table was: nothing was ever sent to it.
C24_Witness ==
    /\ sys.server = "exited"
    /\ sys.exit = 1
    /\ sys.tables = {"pets"}
    /\ sent = 0
    /\ \A c \in Clients : req[c].pc = "idle"

\* C25: deleteRecord requests, also two for the same stored record that
\* overlap, are answered 200 or 404 and never fail: the existence check of one
\* changes no row and answers 404 only if the record is not stored, its DELETE
\* removes the record of its id and changes no other record and no pet, and
\* once one is answered 200 the record of its id is not stored.
C25_ConcurrentDeleteRecord ==
    /\ [](\A c \in Clients :
            Done(c, "deleteRecord") =>
                /\ req[c].status \in {200, 404}
                /\ req[c].nexts = 0
                /\ req[c].status = 200 => ~ \E r \in records : r.id = req[c].id)
    /\ [][\A c \in Clients :
            /\ Arrives(c, "deleteRecord") =>
                  /\ pets' = pets /\ records' = records
                  /\ req'[c].pc = "done" <=> ~ \E r \in records : r.id = req'[c].id
                  /\ req'[c].pc = "done" => req'[c].status = 404
            /\ (req[c].op = "deleteRecord" /\ req[c].pc = "write" /\ req'[c] # req[c]) =>
                  /\ req'[c].pc = "done" /\ req'[c].status = 200
                  /\ pets' = pets
                  /\ records' = {r \in records : r.id # req[c].id}
       ]_vars

\* Two deleteRecord requests for record 1 have both passed the existence check
\* before either DELETE ran; both are answered 200, the record is gone and
\* its pet is still stored.
C25_Witness ==
    /\ \A c \in {1, 2} : /\ Done(c, "deleteRecord")
                         /\ req[c].id = 1
                         /\ req[c].status = 200
    /\ records = {}
    /\ \E p \in pets : p.id = 1

\* The rows of the table handler op updates.
TableOf(op, ps, rs) == IF op = "updatePet" THEN ps ELSE rs

\* C26: when updatePet or updateRecord answers 200, the body of the response
\* is the row of the request's id as it is stored after the UPDATE; and when
\* the row of the request's id is not stored any more at the UPDATE, the
\* handler does not answer 200 and the row stays absent.
C26_UpdateAnswersWithStoredRow ==
    [][\A c \in Clients : \A op \in {"updatePet", "updateRecord"} :
          Writes(c, op) =>
              /\ req'[c].status = 200 =>
                    /\ req'[c].result \in TableOf(op, pets', records')
                    /\ req'[c].result.id = req[c].id
              /\ (~ \E x \in TableOf(op, pets, records) : x.id = req[c].id) =>
                    /\ req'[c].status # 200
                    /\ ~ \E x \in TableOf(op, pets', records') : x.id = req[c].id
    ]_vars

\* C27: when no request is under way, and none has overlapped another (one
\* client), no two stored pets have the same name and the same owner_name.
C27_PetKeyUniqueWhenSequential ==
    (env.clients = 1 /\ \A c \in Clients : req[c].pc \in {"idle", "done"}) =>
        \A p, q \in pets : SamePetKey(p, q) => p.id = q.id

\* The sum of the counts of a by-type object.
RECURSIVE SumOfCounts(_)
SumOfCounts(f) ==
    IF DOMAIN f = {} THEN 0
    ELSE LET k == CHOOSE x \in DOMAIN f : TRUE
         IN  f[k] + SumOfCounts([x \in DOMAIN f \ {k} |-> f[x]])

\* The records listed in a sequence of joined rows.
ListedRecords(q) == {q[i].record.id : i \in DOMAIN q}

\* C28: in every answer of getStats, also when other requests have written
\* between its queries, the counts of petsByType sum to totalPets, the counts
\* of recordsByType sum to totalRecords, and the records listed in
\* recentRecords and upcomingVaccines are no more than totalRecords.
C28_StatsConsistent ==
    \A c \in Clients :
        (Done(c, "getStats") /\ req[c].status = 200) =>
            LET stats == req[c].result IN
            /\ SumOfCounts(stats.petsByType) = stats.totalPets
            /\ SumOfCounts(stats.recordsByType) = stats.totalRecords
            /\ Cardinality(ListedRecords(stats.recentRecords)
                             \cup ListedRecords(stats.upcomingVaccines))
                  <= stats.totalRecords

\* C29: a handler that has ended has sent exactly one response or called
\* next(err) exactly once, and not both; one that has not ended has done
\* neither and has a statement to run; next(err) is called exactly when a
\* statement has thrown, which is answered as the generic 500.
C29_ExactlyOneOutcome ==
    \A c \in Clients :
        /\ req[c].pc = "done" =>
              /\ req[c].responses + req[c].nexts = 1
              /\ req[c].nexts = 1 <=> req[c].status = 500
              /\ req[c].responses = 1 => req[c].status \in {200, 201, 400, 404}
        /\ req[c].pc # "done" => req[c].responses = 0 /\ req[c].nexts = 0
        /\ req[c].pc \notin {"idle", "done"} =>
              ENABLED (Handlers /\ req'[c].pc = "done" /\ req'[c].responses = 1)
                 \/ ENABLED (Handlers /\ req'[c].pc \notin {"idle", "done"}
                                      /\ req'[c].pc # req[c].pc)
                 \/ ENABLED (Handlers /\ req'[c].pc = "done" /\ req'[c].nexts = 1)

\* The fifth query of getStats has thrown after four have run: next(err) was
\* called once and no response was sent by the handler.
C29_Witness ==
    \E c \in Clients :
        /\ Done(c, "getStats")
        /\ req[c].nexts = 1
        /\ req[c].responses = 0
        /\ req[c].status = 500
        /\ sent >= 2

\* Client c submits the record form in edit mode in this step.
SubmitsForm(c) == req[c].pc = "idle" /\ req'[c].form # NoRow

\* C30: when the record form is submitted in edit mode and a request goes out,
\* the form (a null severity taken as undefined) passes createRecordSchema;
\* a date or reactions field that is empty in the form is absent from the
\* body that is sent; and the stored record has the date and the reactions
\* it had before the submission.
C30_EditFormKeepsEmptyFields ==
    [][\A c \in Clients :
          SubmitsForm(c) =>
              LET formData == req'[c].form
                  body     == req'[c].body
              IN  /\ Success(createRecordSchema(
                        [formData EXCEPT !.severity = IF @ = Null THEN Undefined ELSE @]))
                  /\ formData.date = Str(<<>>) => body.date = Undefined
                  /\ formData.reactions = Str(<<>>) => body.reactions = Undefined
                  /\ \A r \in records : r.id = req'[c].id =>
                        \E n \in records' :
                            /\ n.id = r.id
                            /\ formData.date = Str(<<>>) => n.date = r.date
                            /\ formData.reactions = Str(<<>>) => n.reactions = r.reactions
    ]_vars
====
